---------------------------- MODULE Spec2Model ----------------------------
(***************************************************************************)
(* A model of trecho's SoftThread (src/src/soft.rs): one RISC-V HART that  *)
(* fetches a word from its program image, decodes it and executes it       *)
(* against its register files, CSR file, reservation list and memory bus.  *)
(*                                                                         *)
(* Representation.  A u64 is a sequence of 8 bytes, least significant      *)
(* byte first (TLC's integers are 32 bits wide, so a 64-bit value is never *)
(* held in one integer).  A 32-bit instruction word is a sequence of 4     *)
(* bytes, least significant first.  An i32 immediate is an integer.        *)
(***************************************************************************)
EXTENDS Integers, Sequences, FiniteSets, TLC

\* ------------------------------------------------------------------ bounds
\* Number of 8-byte doublewords of the modelled Dram.
MemDwords == 2
\* Longest program image, in instructions, the harness loads.
MaxInsts == 3
\* Longest reservation list explored (LR pushes without bound in the code).
MaxRes == 3

\* --------------------------------------------------------------- constants
INST_LEN == 4
NumRegs == 33
MaxProgramLen == 4096

\* Size in bytes of the Dram (crate::memory, not part of the sources at hand).
MEM_SIZE == 8 * MemDwords

\* ------------------------------------------------------------ u64 helpers
ZeroWord == <<0, 0, 0, 0, 0, 0, 0, 0>>
OneWord  == <<1, 0, 0, 0, 0, 0, 0, 0>>

\* A small natural number (below 2^24) as a u64.
U64 (n) == <<n % 256, (n \div 256) % 256, (n \div 65536) % 256, 0, 0, 0, 0, 0>>

\* `(imm as i64) as u64`: sign extension of an i32 to 64 bits.
SextImm(imm) ==
  LET m == IF imm < 0 THEN imm + 2147483647 + 1 ELSE imm   \* low 31 bits
      top == IF imm < 0 THEN 255 ELSE 0
  IN  << m % 256, (m \div 256) % 256, (m \div 65536) % 256,
         ((m \div 16777216) % 128) + (IF imm < 0 THEN 128 ELSE 0),
         top, top, top, top >>

\* Carry into byte position i of a + b.
RECURSIVE CarryInto(_, _, _)
CarryInto(a, b, i) ==
  IF i = 1 THEN 0
  ELSE (a[i-1] + b[i-1] + CarryInto(a, b, i-1)) \div 256

\* u64::wrapping_add
wrapping_add(a, b) ==
  [i \in 1..8 |-> (a[i] + b[i] + CarryInto(a, b, i)) % 256]

\* u64::checked_add returns None exactly when the sum carries out of bit 63.
checked_add_is_none(a, b) == CarryInto(a, b, 9) = 1

\* addr % n for n a power of two not above 256.
ModSmall(a, n) == a[1] % n

\* `x & !1`
ClearBit0(a) == [a EXCEPT ![1] = a[1] - (a[1] % 2)]

\* `(x as i32) as i64 as u64`: sign extension of the low 32 bits.
SextW(a) ==
  LET top == IF a[4] >= 128 THEN 255 ELSE 0
  IN  <<a[1], a[2], a[3], a[4], top, top, top, top>>

\* The low `bits` bits of a value, zero extended.
LowBits(a, bits) == [i \in 1..8 |-> IF i <= bits \div 8 THEN a[i] ELSE 0]

\* Unsigned and signed (`as i64`) comparison.
RECURSIVE LtFrom(_, _, _)
LtFrom(a, b, i) ==
  IF i = 0 THEN FALSE
  ELSE IF a[i] # b[i] THEN a[i] < b[i]
  ELSE LtFrom(a, b, i-1)

LtU(a, b) == LtFrom(a, b, 8)

LtS(a, b) ==
  IF (a[8] >= 128) # (b[8] >= 128) THEN a[8] >= 128 ELSE LtU(a, b)

\* `!a`, wrapping_neg and wrapping_sub on u64.
Not(a) == [i \in 1..8 |-> 255 - a[i]]

wrapping_neg(a) == wrapping_add(Not(a), OneWord)

wrapping_sub(a, b) == wrapping_add(a, wrapping_neg(b))

\* Bit k (0 is the least significant) of a, and the u64 with the bits f.
Pow2 == <<1, 2, 4, 8, 16, 32, 64, 128>>

Bit(a, k) == (a[(k \div 8) + 1] \div Pow2[(k % 8) + 1]) % 2

FromBits(f) ==
  [i \in 1..8 |->
     LET k == 8 * (i - 1) IN
     f[k] + 2 * f[k + 1] + 4 * f[k + 2] + 8 * f[k + 3] + 16 * f[k + 4]
       + 32 * f[k + 5] + 64 * f[k + 6] + 128 * f[k + 7]]

\* u64::wrapping_shl and wrapping_shr, i64::wrapping_shr: the shift amount
\* is taken modulo 64.
wrapping_shl(a, n) ==
  LET m == n % 64 IN
  FromBits([k \in 0..63 |-> IF k >= m THEN Bit(a, k - m) ELSE 0])

wrapping_shr(a, n) ==
  LET m == n % 64 IN
  FromBits([k \in 0..63 |-> IF k + m <= 63 THEN Bit(a, k + m) ELSE 0])

wrapping_shr_i64(a, n) ==
  LET m == n % 64 IN
  FromBits([k \in 0..63 |-> IF k + m <= 63 THEN Bit(a, k + m) ELSE Bit(a, 63)])
\* `x as usize` for a value known to be small; -1 when it is 2^24 or more.
AsIndex(a) ==
  IF \A i \in 4..8 : a[i] = 0
  THEN a[1] + 256 * a[2] + 65536 * a[3]
  ELSE -1


\* ------------------------------------------------------------- memory bus
\* crate::memory::Dram is not part of the sources at hand.  It is modelled
\* from the specification's section 4.3: a contiguous little-endian byte
\* array of MEM_SIZE bytes, zero after construction, whose read and write
\* at a width of 8, 16, 32 or 64 bits fail exactly when the access does not
\* lie inside the array.
DramDefault == [a \in 0..(MEM_SIZE - 1) |-> 0]

BusInRange(addr, bits) ==
  /\ AsIndex(addr) # -1
  /\ AsIndex(addr) + (bits \div 8) <= MEM_SIZE

\* Ok(value) of Memory::read, zero extended to a u64.
BusRead(b, addr, bits) ==
  [i \in 1..8 |-> IF i <= bits \div 8 THEN b[AsIndex(addr) + i - 1] ELSE 0]

\* The memory after a successful Memory::write of the low `bits` bits.
BusWrite(b, addr, val, bits) ==
  [a \in DOMAIN b |->
     IF a >= AsIndex(addr) /\ a < AsIndex(addr) + (bits \div 8)
     THEN val[a - AsIndex(addr) + 1]
     ELSE b[a]]

\* ----------------------------------------------------------------- decoder
\* crate::encoding (Instruction::decode, EncodingTable) is not part of the
\* sources at hand.  The decoder is modelled from the specification's
\* section 4.1 and the field placement of the RISC-V unprivileged manual.
\* A word w is <<bits 7:0, bits 15:8, bits 23:16, bits 31:24>>.
EncodingTableDefault ==
  [base |-> "RV64I", ext |-> {"M", "A", "F", "D", "Q", "Zicsr", "Zifencei"}]

Opcode(w) == w[1] % 128
RdField(w) == (w[1] \div 128) + 2 * (w[2] % 16)
Funct3(w) == (w[2] \div 16) % 8
Rs1Field(w) == (w[2] \div 128) + 2 * (w[3] % 16)
Rs2Field(w) == (w[3] \div 16) + 16 * (w[4] % 2)
Funct7(w) == w[4] \div 2
Funct5(w) == w[4] \div 8
CsrField(w) == (w[3] \div 16) + 16 * w[4]
ShamtField(w) == (w[3] \div 16) + 16 * (w[4] % 4)

\* A `width`-bit field value read as a two's-complement number.
Signed(v, width) == IF v >= 2 ^ (width - 1) THEN v - 2 ^ width ELSE v

ImmI(w) == Signed(CsrField(w), 12)
ImmS(w) == Signed(Funct7(w) * 32 + RdField(w), 12)
ImmB(w) ==
  Signed((w[4] \div 128) * 4096 + (w[1] \div 128) * 2048
         + ((w[4] \div 2) % 64) * 32 + (w[2] % 16) * 2, 13)
ImmU(w) == Signed(w[4], 8) * 16777216 + w[3] * 65536 + (w[2] \div 16) * 4096
ImmJ(w) ==
  Signed((w[4] \div 128) * 1048576
         + ((w[2] \div 16) + 16 * (w[3] % 16)) * 4096
         + ((w[3] \div 16) % 2) * 2048
         + ((w[3] \div 32) + 8 * (w[4] % 128)) * 2, 21)

\* The operation a word selects under an encoding table.
DecodeOp(w, t) ==
  LET opc == Opcode(w)
      f3 == Funct3(w)
      f7 == Funct7(w)
      f5 == Funct5(w)
      rv64 == t.base = "RV64I"
      has(e) == e \in t.ext
  IN
  IF w[1] % 4 # 3 THEN "Undefined"
  ELSE IF opc = 55 THEN "Lui"
  ELSE IF opc = 23 THEN "Auipc"
  ELSE IF opc = 111 THEN "Jal"
  ELSE IF opc = 103 THEN (IF f3 = 0 THEN "Jalr" ELSE "Undefined")
  ELSE IF opc = 99 THEN
    CASE f3 = 0 -> "Beq" [] f3 = 1 -> "Bne" [] f3 = 4 -> "Blt"
      [] f3 = 5 -> "Bge" [] f3 = 6 -> "Bltu" [] f3 = 7 -> "Bgeu"
      [] OTHER -> "Undefined"
  ELSE IF opc = 3 THEN
    CASE f3 = 0 -> "Lb" [] f3 = 1 -> "Lh" [] f3 = 2 -> "Lw"
      [] f3 = 4 -> "Lbu" [] f3 = 5 -> "Lhu"
      [] f3 = 6 /\ rv64 -> "Lwu" [] f3 = 3 /\ rv64 -> "Ld"
      [] OTHER -> "Undefined"
  ELSE IF opc = 35 THEN
    CASE f3 = 0 -> "Sb" [] f3 = 1 -> "Sh" [] f3 = 2 -> "Sw"
      [] f3 = 3 /\ rv64 -> "Sd"
      [] OTHER -> "Undefined"
  ELSE IF opc = 19 THEN
    CASE f3 = 0 -> "Addi" [] f3 = 2 -> "Slti" [] f3 = 3 -> "Sltiu"
      [] f3 = 4 -> "Xori" [] f3 = 6 -> "Ori" [] f3 = 7 -> "Andi"
      [] f3 = 1 /\ w[4] \div 4 = 0 /\ (rv64 \/ w[4] % 4 < 2) -> "Slli"
      [] f3 = 5 /\ w[4] \div 4 = 0 /\ (rv64 \/ w[4] % 4 < 2) -> "Srli"
      [] f3 = 5 /\ w[4] \div 4 = 16 /\ (rv64 \/ w[4] % 4 < 2) -> "Srai"
      [] OTHER -> "Undefined"
  ELSE IF opc = 51 THEN
    CASE f7 = 0 ->
           (CASE f3 = 0 -> "Add" [] f3 = 1 -> "Sll" [] f3 = 2 -> "Slt"
              [] f3 = 3 -> "Sltu" [] f3 = 4 -> "Xor" [] f3 = 5 -> "Srl"
              [] f3 = 6 -> "Or" [] f3 = 7 -> "And")
      [] f7 = 32 /\ f3 = 0 -> "Sub"
      [] f7 = 32 /\ f3 = 5 -> "Sra"
      [] f7 = 1 /\ has("M") ->
           (CASE f3 = 0 -> "Mul" [] f3 = 1 -> "Mulh" [] f3 = 2 -> "Mulhsu"
              [] f3 = 3 -> "Mulhu" [] f3 = 4 -> "Div" [] f3 = 5 -> "Divu"
              [] f3 = 6 -> "Rem" [] f3 = 7 -> "Remu")
      [] OTHER -> "Undefined"
  ELSE IF opc = 15 THEN
    CASE f3 = 0 -> "Fence"
      [] f3 = 1 /\ has("Zifencei") -> "FenceI"
      [] OTHER -> "Undefined"
  ELSE IF opc = 115 THEN
    CASE f3 = 0 /\ CsrField(w) = 0 /\ RdField(w) = 0 /\ Rs1Field(w) = 0 -> "ECall"
      [] f3 = 0 /\ CsrField(w) = 1 /\ RdField(w) = 0 /\ Rs1Field(w) = 0 -> "EBreak"
      [] f3 = 1 /\ has("Zicsr") -> "Csrrw"
      [] f3 = 2 /\ has("Zicsr") -> "Csrrs"
      [] f3 = 3 /\ has("Zicsr") -> "Csrrc"
      [] f3 = 5 /\ has("Zicsr") -> "Csrrwi"
      [] f3 = 6 /\ has("Zicsr") -> "Csrrsi"
      [] f3 = 7 /\ has("Zicsr") -> "Csrrci"
      [] OTHER -> "Undefined"
  ELSE IF opc = 27 /\ rv64 THEN
    CASE f3 = 0 -> "Addiw"
      [] f3 = 1 /\ f7 = 0 -> "Slliw"
      [] f3 = 5 /\ f7 = 0 -> "Srliw"
      [] f3 = 5 /\ f7 = 32 -> "Sraiw"
      [] OTHER -> "Undefined"
  ELSE IF opc = 59 /\ rv64 THEN
    CASE f7 = 0 /\ f3 = 0 -> "Addw"
      [] f7 = 32 /\ f3 = 0 -> "Subw"
      [] f7 = 0 /\ f3 = 1 -> "Sllw"
      [] f7 = 0 /\ f3 = 5 -> "Srlw"
      [] f7 = 32 /\ f3 = 5 -> "Sraw"
      [] f7 = 1 /\ f3 = 0 /\ has("M") -> "Mulw"
      [] f7 = 1 /\ f3 = 4 /\ has("M") -> "Divw"
      [] f7 = 1 /\ f3 = 5 /\ has("M") -> "Divuw"
      [] f7 = 1 /\ f3 = 6 /\ has("M") -> "Remw"
      [] f7 = 1 /\ f3 = 7 /\ has("M") -> "RemuW"
      [] OTHER -> "Undefined"
  ELSE IF opc = 47 /\ has("A") /\ (f3 = 2 \/ (f3 = 3 /\ rv64)) THEN
    LET sfx == IF f3 = 2 THEN "W" ELSE "D" IN
    CASE f5 = 2 /\ Rs2Field(w) = 0 -> "Lr" \o sfx
      [] f5 = 3 -> "Sc" \o sfx
      [] f5 = 1 -> "Amoswap" \o sfx
      [] f5 = 0 -> "Amoadd" \o sfx
      [] f5 = 4 -> "Amoxor" \o sfx
      [] f5 = 12 -> "Amoand" \o sfx
      [] f5 = 8 -> "Amoor" \o sfx
      [] f5 = 16 -> "Amomin" \o sfx
      [] f5 = 20 -> "Amomax" \o sfx
      [] f5 = 24 -> "Amominu" \o sfx
      [] f5 = 28 -> "Amomaxu" \o sfx
      [] OTHER -> "Undefined"
  ELSE IF opc = 83 /\ f7 = 113 /\ f3 = 1 /\ Rs2Field(w) = 0 /\ has("D")
    THEN "FclassD"
  ELSE IF opc = 83 /\ f3 = 0 /\ Rs2Field(w) = 0 /\ f7 \in {112, 120} /\ has("F")
    THEN (IF f7 = 112 THEN "FmvXW" ELSE "FmvWX")
  ELSE IF opc = 83 /\ f3 = 0 /\ Rs2Field(w) = 0 /\ f7 \in {113, 121}
          /\ has("D") /\ rv64
    THEN (IF f7 = 113 THEN "FmvXD" ELSE "FmvDX")
  ELSE IF opc = 7 /\ f3 = 2 /\ has("F") THEN "Flw"
  ELSE IF opc = 39 /\ f3 = 2 /\ has("F") THEN "Fsw"
  ELSE IF opc = 7 /\ f3 = 3 /\ has("D") THEN "Fld"
  ELSE IF opc = 39 /\ f3 = 3 /\ has("D") THEN "Fsd"
  \* The remaining F/D/Q encodings: one class, which execute's dispatch
  \* below gives no arm, so that no behaviour is invented for them.
  ELSE IF opc \in {7, 39, 67, 71, 75, 79, 83} /\ has("F") THEN "Float"
  ELSE "Undefined"

\* The immediate an operation carries.
DecodeImm(op, w) ==
  CASE op \in {"Lui", "Auipc"} -> ImmU(w)
    [] op = "Jal" -> ImmJ(w)
    [] op \in {"Beq", "Bne", "Blt", "Bge", "Bltu", "Bgeu"} -> ImmB(w)
    [] op \in {"Sb", "Sh", "Sw", "Sd", "Fsw", "Fsd"} -> ImmS(w)
    [] OTHER -> ImmI(w)

\* Instruction::decode
Decode(w, t) ==
  LET op == DecodeOp(w, t) IN
  [op |-> op, rd |-> RdField(w), rs1 |-> Rs1Field(w), rs2 |-> Rs2Field(w),
   imm |-> DecodeImm(op, w), shamt |-> ShamtField(w), csr |-> CsrField(w),
   uimm |-> Rs1Field(w)]

NoInst ==
  [op |-> "None", rd |-> 0, rs1 |-> 0, rs2 |-> 0, imm |-> 0, shamt |-> 0,
   csr |-> 0, uimm |-> 0]


\* ------------------------------------------------------------------- state
VARIABLES
  registers,    \* SoftThread.registers: [R; 33]
  f_registers,  \* SoftThread.f_registers: [F; 33], as f64 bit patterns
  pc,           \* SoftThread.pc
  program,      \* SoftThread.program: Vec<u8>
  enc_table,    \* SoftThread.enc_table
  bus,          \* SoftThread.bus: Dram
  csr,          \* SoftThread.csr: [R; 4096], as the entries that differ from 0
  res,          \* SoftThread.res: Vec<u64>
  outcome,      \* "new", or how the last call ended: "ok" (returned), "panic"
  inst,         \* history: the instruction the last execute() decoded
  old,          \* history: the architectural state before the last execute()
  inst2,        \* history: the instruction of the execute() before the last
  old2,         \* history: the architectural state before that execute()
  loaded,       \* history: the vector handed to the last load_program()
  cores,        \* Cpu.cores: the HARTs other than the one being stepped
  hart,         \* index in Cpu.cores of the HART being stepped
  trail         \* history: the HARTs of the last two execute() calls

vars == <<registers, f_registers, pc, program, enc_table, bus, csr, res,
          outcome, inst, old, inst2, old2, loaded, cores, hart, trail>>

\* The variables of one HART, and those of the Cpu around it.
soft == <<registers, f_registers, pc, program, enc_table, bus, csr, res,
          outcome, inst, old, inst2, old2, loaded>>
cpu == <<cores, hart, trail>>

arch == [registers |-> registers, f_registers |-> f_registers, pc |-> pc,
         bus |-> bus, csr |-> csr, res |-> res]

\* Encoding tables a HART is constructed with.
EncodingTables ==
  { EncodingTableDefault, [base |-> "RV32I", ext |-> {}] }

\* SoftThread::new
Init ==
  /\ \E t \in EncodingTables : enc_table = t
  /\ registers = [i \in 0..(NumRegs - 1) |-> IF i = 2 THEN U64(MEM_SIZE) ELSE ZeroWord]
  /\ f_registers = [i \in 0..(NumRegs - 1) |-> ZeroWord]
  /\ pc = ZeroWord
  /\ program = <<>>
  /\ csr = <<>>
  /\ bus = DramDefault
  /\ res = <<>>
  /\ outcome = "new"
  /\ inst = NoInst
  /\ old = [registers |-> registers, f_registers |-> f_registers, pc |-> pc,
            bus |-> bus, csr |-> csr, res |-> res]
  /\ inst2 = NoInst
  /\ old2 = old
  /\ loaded = <<>>
  /\ cores = <<>>
  /\ hart = 0
  /\ trail = <<-1, -1>>

\* SoftThread::fetch.  The indexing panics when pc + 3 is not an index of
\* the program image.
FetchInBounds == AsIndex(pc) # -1 /\ AsIndex(pc) + 3 < Len(program)

fetch ==
  LET p == AsIndex(pc)
      \* `bytes`, the array handed to u32::from_le_bytes
      bytes == << program[p + 3 + 1], program[p + 2 + 1],
                  program[p + 1 + 1], program[p + 1] >>
  IN  bytes

\* ---------------------------------------------------- arms of execute()
\* Every arm states the new registers, f_registers, pc, bus, csr, res and
\* outcome.  A panic (an index out of bounds, todo!()) unwinds out of
\* execute() before anything is written.
Panic ==
  /\ outcome' = "panic"
  /\ UNCHANGED <<registers, f_registers, pc, bus, csr, res>>

Todo == Panic

\* SoftThread::advance
advance == pc' = wrapping_add(pc, U64(INST_LEN))

Lui(rd, imm) ==
  /\ registers' = [registers EXCEPT ![rd] = SextImm(imm)]
  /\ advance
  /\ outcome' = "ok"
  /\ UNCHANGED <<f_registers, bus, csr, res>>

\* Auipc as it would be had the immediate been zero-extended
\* (`(imm as u32) as u64`).
Auipc_ZeroExtends(rd, imm) ==
  LET z == LowBits(SextImm(imm), 32) IN
  /\ registers' = IF checked_add_is_none(pc, z) THEN registers
                  ELSE [registers EXCEPT ![rd] = wrapping_add(pc, z)]
  /\ advance
  /\ outcome' = "ok"
  /\ UNCHANGED <<f_registers, bus, csr, res>>

\* Auipc: the write is skipped when pc + imm carries out of 64 bits.
Auipc(rd, imm) ==
  /\ registers' = IF checked_add_is_none(pc, SextImm(imm)) THEN registers
                  ELSE [registers EXCEPT ![rd] = wrapping_add(pc, SextImm(imm))]
  /\ advance
  /\ outcome' = "ok"
  /\ UNCHANGED <<f_registers, bus, csr, res>>

\* Jal as it would be had the link been taken after the jump.
Jal_LinksAfterJump(rd, imm) ==
  /\ pc' = wrapping_add(pc, SextImm(imm))
  /\ registers' = [registers EXCEPT ![rd] = wrapping_add(pc', U64(4))]
  /\ outcome' = "ok"
  /\ UNCHANGED <<f_registers, bus, csr, res>>

\* Jal
Jal(rd, imm) ==
  /\ registers' = [registers EXCEPT ![rd] = wrapping_add(pc, U64(4))]
  /\ pc' = wrapping_add(pc, SextImm(imm))
  /\ outcome' = "ok"
  /\ UNCHANGED <<f_registers, bus, csr, res>>

\* Jalr as it would be had rd been written before rs1 is read.
Jalr_WritesRdFirst(rd, rs1, imm) ==
  LET t == wrapping_add(pc, U64(4)) IN
  /\ registers' = [registers EXCEPT ![rd] = t]
  /\ pc' = ClearBit0(wrapping_add(registers'[rs1], SextImm(imm)))
  /\ outcome' = "ok"
  /\ UNCHANGED <<f_registers, bus, csr, res>>

\* Jalr: the link is computed, then the target from registers[rs1], then
\* rd is written.
Jalr(rd, rs1, imm) ==
  LET t == wrapping_add(pc, U64(4)) IN
  /\ pc' = ClearBit0(wrapping_add(registers[rs1], SextImm(imm)))
  /\ registers' = [registers EXCEPT ![rd] = t]
  /\ outcome' = "ok"
  /\ UNCHANGED <<f_registers, bus, csr, res>>

\* The comparisons as they would be had Blt and Bge compared the registers
\* without the `as i64` casts.
BranchTaken_Unsigned(op, a, b) ==
  CASE op = "Beq" -> a = b
    [] op = "Bne" -> a # b
    [] op = "Blt" -> LtU(a, b)
    [] op = "Bge" -> ~LtU(a, b)
    [] op = "Bltu" -> LtU(a, b)
    [] op = "Bgeu" -> ~LtU(a, b)
\* Beq, Bne, Blt, Bge, Bltu, Bgeu
BranchTaken(op, a, b) ==
  CASE op = "Beq" -> a = b
    [] op = "Bne" -> a # b
    [] op = "Blt" -> LtS(a, b)
    [] op = "Bge" -> ~LtS(a, b)
    [] op = "Bltu" -> LtU(a, b)
    [] op = "Bgeu" -> ~LtU(a, b)

Branch(op, rs1, rs2, imm) ==
  /\ IF BranchTaken(op, registers[rs1], registers[rs2])
     THEN pc' = wrapping_add(pc, SextImm(imm))
     ELSE advance
  /\ outcome' = "ok"
  /\ UNCHANGED <<registers, f_registers, bus, csr, res>>

\* Lb, Lh, Lbu, Lhu, Lwu, Ld: the value read is written to rd as the bus
\* returns it; `(into_u64(val) as i64) as u64` changes no bit.
LoadZext(rd, rs1, imm, bits) ==
  LET addr == wrapping_add(registers[rs1], SextImm(imm)) IN
  /\ registers' = IF BusInRange(addr, bits)
                  THEN [registers EXCEPT ![rd] = BusRead(bus, addr, bits)]
                  ELSE registers
  /\ advance
  /\ outcome' = "ok"
  /\ UNCHANGED <<f_registers, bus, csr, res>>

Lw(rd, rs1, imm) ==
  LET addr == wrapping_add(registers[rs1], SextImm(imm)) IN
  /\ registers' = IF BusInRange(addr, 32)
                  THEN [registers EXCEPT ![rd] = SextW(BusRead(bus, addr, 32))]
                  ELSE registers
  /\ advance
  /\ outcome' = "ok"
  /\ UNCHANGED <<f_registers, bus, csr, res>>

\* Sb, Sh, Sw, Sd: the result of the write is dropped.
Store(rs1, rs2, imm, bits) ==
  LET addr == wrapping_add(registers[rs1], SextImm(imm)) IN
  /\ bus' = IF BusInRange(addr, bits)
            THEN BusWrite(bus, addr, registers[rs2], bits)
            ELSE bus
  /\ advance
  /\ outcome' = "ok"
  /\ UNCHANGED <<registers, f_registers, csr, res>>

Addi(rd, rs1, imm) ==
  /\ registers' = IF checked_add_is_none(registers[rs1], SextImm(imm))
                  THEN registers
                  ELSE [registers EXCEPT ![rd] = wrapping_add(registers[rs1], SextImm(imm))]
  /\ advance
  /\ outcome' = "ok"
  /\ UNCHANGED <<f_registers, bus, csr, res>>

\* Fence, FenceI, ECall, EBreak: todo!()
Fence == Todo
FenceI == Todo
ECall == Todo
EBreak == Todo

\* FclassD: an empty arm
FclassD ==
  /\ outcome' = "ok"
  /\ UNCHANGED <<registers, f_registers, pc, bus, csr, res>>

\* The default arm `_ => {}`: Undefined, and Srliw, which has no arm.
DefaultArm ==
  /\ outcome' = "ok"
  /\ UNCHANGED <<registers, f_registers, pc, bus, csr, res>>


\* Vec::retain(|x| *x != addr)
RECURSIVE Retain(_, _)
Retain(v, addr) ==
  IF v = <<>> THEN <<>>
  ELSE IF Head(v) # addr THEN <<Head(v)>> \o Retain(Tail(v), addr)
  ELSE Retain(Tail(v), addr)

\* Vec::contains
Contains(v, addr) == \E i \in 1..Len(v) : v[i] = addr

\* LrW (bits = 32, align = 4) and LrD (bits = 64, align = 8).  The value
\* pushed is registers[rs1] as read after rd has been written.
Lr(rd, rs1, bits, align) ==
  LET addr == registers[rs1]
      val == IF bits = 32 THEN SextW(BusRead(bus, addr, 32))
             ELSE BusRead(bus, addr, 64)
  IN
  IF ModSmall(addr, align) # 0 THEN Todo
  ELSE
    /\ registers' = IF BusInRange(addr, bits)
                    THEN [registers EXCEPT ![rd] = val]
                    ELSE registers
    /\ res' = IF BusInRange(addr, bits)
              THEN Append(res, registers'[rs1])
              ELSE res
    /\ advance
    /\ outcome' = "ok"
    /\ UNCHANGED <<f_registers, bus, csr>>

\* Sc as it would be had the successful branch left the reservation list
\* alone.
Sc_KeepsReservation(rd, rs1, rs2, bits, align) ==
  LET addr == registers[rs1] IN
  IF ModSmall(addr, align) # 0 THEN Todo
  ELSE
    /\ IF Contains(res, addr)
       THEN /\ res' = res
            /\ bus' = IF BusInRange(addr, bits)
                      THEN BusWrite(bus, addr, registers[rs2], bits)
                      ELSE bus
            /\ registers' = [registers EXCEPT ![rd] = ZeroWord]
       ELSE /\ res' = Retain(res, addr)
            /\ bus' = bus
            /\ registers' = [registers EXCEPT ![rd] = OneWord]
    /\ advance
    /\ outcome' = "ok"
    /\ UNCHANGED <<f_registers, csr>>

\* ScW (bits = 32, align = 4) and ScD (bits = 64, align = 8).  The result
\* of the bus write is not looked at.
Sc(rd, rs1, rs2, bits, align) ==
  LET addr == registers[rs1] IN
  IF ModSmall(addr, align) # 0 THEN Todo
  ELSE
    /\ res' = Retain(res, addr)
    /\ IF Contains(res, addr)
       THEN /\ bus' = IF BusInRange(addr, bits)
                      THEN BusWrite(bus, addr, registers[rs2], bits)
                      ELSE bus
            /\ registers' = [registers EXCEPT ![rd] = ZeroWord]
       ELSE /\ bus' = bus
            /\ registers' = [registers EXCEPT ![rd] = OneWord]
    /\ advance
    /\ outcome' = "ok"
    /\ UNCHANGED <<f_registers, csr>>

\* AmoswapW (bits = 32, align = 4) and AmoswapD (bits = 64, align = 8)
Amoswap(rd, rs1, rs2, bits, align) ==
  LET addr == registers[rs1]
      temp == IF bits = 32 THEN SextW(BusRead(bus, addr, 32))
              ELSE BusRead(bus, addr, 64)
      val == registers[rs2]
  IN
  IF ModSmall(addr, align) # 0 THEN Todo
  ELSE
    /\ IF BusInRange(addr, bits)
       THEN /\ bus' = BusWrite(bus, addr, val, bits)
            /\ registers' = [registers EXCEPT ![rd] = temp]
       ELSE UNCHANGED <<bus, registers>>
    /\ advance
    /\ outcome' = "ok"
    /\ UNCHANGED <<f_registers, csr, res>>

\* `^`, `&` and `|` on one byte, n bits at a time.
RECURSIVE BitwiseByte(_, _, _, _)
BitwiseByte(f, x, y, n) ==
  IF n = 0 THEN 0
  ELSE LET bx == x % 2
           by == y % 2
           b == CASE f = "xor" -> (bx + by) % 2
                  [] f = "and" -> bx * by
                  [] f = "or" -> IF bx + by > 0 THEN 1 ELSE 0
       IN  b + 2 * BitwiseByte(f, x \div 2, y \div 2, n - 1)

\* `a ^ b`, `a & b`, `a | b` on u64
Bitwise(f, a, b) == [i \in 1..8 |-> BitwiseByte(f, a[i], b[i], 8)]

\* std::cmp::min and std::cmp::max on u64
cmp_min(a, b) == IF LtU(b, a) THEN b ELSE a
cmp_max(a, b) == IF LtU(b, a) THEN a ELSE b

\* The value an AMO arm hands to bus.write: `val`, `temp + val`,
\* `temp ^ val`, `temp & val`, `temp | val`, min(temp, val), max(temp, val).
AmoResult(f, temp, val) ==
  CASE f = "swap" -> val
    [] f = "add" -> wrapping_add(temp, val)
    [] f \in {"xor", "and", "or"} -> Bitwise(f, temp, val)
    [] f = "min" -> cmp_min(temp, val)
    [] f = "max" -> cmp_max(temp, val)

\* Amoadd .. Amomaxu, W (bits = 32) and D (bits = 64).  `align` is the
\* modulus the arm tests the address with; `sext` tells whether the arm
\* sign-extends the word read (`((temp as i32) as i64) as u64`).  In
\* `temp + val` a sum that carries out of 64 bits panics in a build with
\* overflow checks and wraps in a build without.
Amo(f, rd, rs1, rs2, bits, align, sext) ==
  LET addr == registers[rs1]
      raw == BusRead(bus, addr, bits)
      temp == IF sext /\ bits = 32 THEN SextW(raw) ELSE raw
      val == registers[rs2]
      done ==
        /\ IF BusInRange(addr, bits)
           THEN /\ bus' = BusWrite(bus, addr, AmoResult(f, temp, val), bits)
                /\ registers' = [registers EXCEPT ![rd] = temp]
           ELSE UNCHANGED <<bus, registers>>
        /\ advance
        /\ outcome' = "ok"
        /\ UNCHANGED <<f_registers, csr, res>>
  IN
  IF ModSmall(addr, align) # 0 THEN Todo
  ELSE IF f = "add" /\ BusInRange(addr, bits) /\ checked_add_is_none(temp, val)
       THEN Panic \/ done
       ELSE done

\* self.csr[i], and self.csr after `self.csr[i] = v`.  Only the entries that
\* differ from 0 are kept.
CsrRead(c, i) == IF i \in DOMAIN c THEN c[i] ELSE ZeroWord

CsrWrite(c, i, v) ==
  LET d == IF v = ZeroWord THEN DOMAIN c \ {i} ELSE DOMAIN c \cup {i} IN
  IF d = {} THEN <<>> ELSE [j \in d |-> IF j = i THEN v ELSE c[j]]

\* RegisterValue::zero_extend is not part of the sources at hand.  The
\* specification's glossary has it widen the low `bits` bits with zeros.
zero_extend(v, bits) == LowBits(v, bits)

\* Csrrw: nothing but advance() happens when rd is x0; otherwise rd is
\* written first and registers[rs1] is read after it.
Csrrw(rd, rs1, c) ==
  /\ IF rd # 0
     THEN /\ registers' = [registers EXCEPT
                             ![rd] = zero_extend(CsrRead(csr, c), 32)]
          /\ csr' = CsrWrite(csr, c, registers'[rs1])
     ELSE UNCHANGED <<registers, csr>>
  /\ advance
  /\ outcome' = "ok"
  /\ UNCHANGED <<f_registers, bus, res>>

\* Csrrs (f = "or") and Csrrc (f = "and"): nothing but advance() happens
\* when rs1 is x0.
CsrRegOp(f, rd, rs1, c) ==
  /\ IF rs1 # 0
     THEN /\ registers' = [registers EXCEPT
                             ![rd] = zero_extend(CsrRead(csr, c), 32)]
          /\ csr' = CsrWrite(csr, c,
                             Bitwise(f, CsrRead(csr, c), registers'[rs1]))
     ELSE UNCHANGED <<registers, csr>>
  /\ advance
  /\ outcome' = "ok"
  /\ UNCHANGED <<f_registers, bus, res>>

Csrrs(rd, rs1, c) == CsrRegOp("or", rd, rs1, c)

Csrrc(rd, rs1, c) == CsrRegOp("and", rd, rs1, c)

\* Csrrwi: nothing but advance() happens when rd is x0.
Csrrwi(rd, c, uimm) ==
  /\ IF rd # 0
     THEN /\ registers' = [registers EXCEPT ![rd] = CsrRead(csr, c)]
          /\ csr' = CsrWrite(csr, c, zero_extend(U64(uimm), 32))
     ELSE UNCHANGED <<registers, csr>>
  /\ advance
  /\ outcome' = "ok"
  /\ UNCHANGED <<f_registers, bus, res>>

\* Csrrsi (f = "or") and Csrrci (f = "and"): nothing but advance() happens
\* when uimm is 0.
CsrImmOp(f, rd, c, uimm) ==
  /\ IF uimm # 0
     THEN /\ registers' = [registers EXCEPT ![rd] = CsrRead(csr, c)]
          /\ csr' = CsrWrite(csr, c,
                             Bitwise(f, CsrRead(csr, c),
                                     zero_extend(U64(uimm), 32)))
     ELSE UNCHANGED <<registers, csr>>
  /\ advance
  /\ outcome' = "ok"
  /\ UNCHANGED <<f_registers, bus, res>>

Csrrsi(rd, c, uimm) == CsrImmOp("or", rd, c, uimm)

Csrrci(rd, c, uimm) == CsrImmOp("and", rd, c, uimm)
\* An arm that writes v to rd and calls advance().
WriteRd(rd, v) ==
  /\ registers' = [registers EXCEPT ![rd] = v]
  /\ advance
  /\ outcome' = "ok"
  /\ UNCHANGED <<f_registers, bus, csr, res>>

\* Slli
Slli(rd, rs1, shamt) == WriteRd(rd, wrapping_shl(registers[rs1], shamt))

\* ------------------------------------------------- RegisterValue helpers
\* crate::register (the RegisterValue trait with its oflow_* methods) is not
\* part of the sources at hand.  The methods are modelled from the
\* specification's M-extension paragraph: the low 64 bits of the product,
\* division rounding towards zero, and the results it lists for a zero
\* divisor and for the signed overflow.
AllOnes == [i \in 1..8 |-> 255]
IntMin == <<0, 0, 0, 0, 0, 0, 0, 128>>

\* Bytes i..8 of the product of a and b, carry being what the lower bytes
\* carried over.
RECURSIVE MulFrom(_, _, _, _)
MulFrom(a, b, i, carry) ==
  IF i > 8 THEN <<>>
  ELSE LET RECURSIVE Col(_)
           Col(j) == IF j = 0 THEN 0 ELSE a[j] * b[i - j + 1] + Col(j - 1)
           s == Col(i) + carry
       IN  <<s % 256>> \o MulFrom(a, b, i + 1, s \div 256)

oflow_mul(a, b) == MulFrom(a, b, 1, 0)

\* a with one more low bit: 2 * a + bit, modulo 2^64.
ShiftIn(a, bit) ==
  [i \in 1..8 |-> ((2 * a[i]) % 256)
                    + (IF i = 1 THEN bit ELSE a[i - 1] \div 128)]

\* The u64 f written out byte by byte.
Bytes(f) == <<f[1], f[2], f[3], f[4], f[5], f[6], f[7], f[8]>>

\* One step of the long division of a by b # 0: bit k of a is taken into
\* the running remainder st.r, and bit k of the quotient st.q is set when b
\* fits into it.
DivStep(a, b, k, st) ==
  LET r2 == ShiftIn(st.r, Bit(a, k))
      fits == st.r[8] >= 128 \/ ~LtU(r2, b)
  IN  [q |-> IF fits
             THEN [st.q EXCEPT ![(k \div 8) + 1] = @ + Pow2[(k % 8) + 1]]
             ELSE st.q,
       r |-> Bytes(IF fits THEN wrapping_sub(r2, b) ELSE r2)]

\* The steps for bits k..0, each on the value of the step before it.
RECURSIVE DivRem(_, _, _, _)
DivRem(a, b, k, st) ==
  IF k < 0 THEN st
  ELSE CHOOSE out \in {DivRem(a, b, k - 1, s) : s \in {DivStep(a, b, k, st)}} :
         TRUE

DivStart == [q |-> ZeroWord, r |-> ZeroWord]

UDiv(a, b) == DivRem(a, b, 63, DivStart).q
URem(a, b) == DivRem(a, b, 63, DivStart).r

\* The magnitude of a read as an i64.
Magnitude(a) == IF a[8] >= 128 THEN wrapping_neg(a) ELSE a

oflow_div(a, b) == IF b = ZeroWord THEN AllOnes ELSE UDiv(a, b)

oflow_rem(a, b) == IF b = ZeroWord THEN a ELSE URem(a, b)

oflow_div_signed(a, b) ==
  IF b = ZeroWord THEN AllOnes
  ELSE IF a = IntMin /\ b = AllOnes THEN IntMin
  ELSE LET q == UDiv(Magnitude(a), Magnitude(b)) IN
       IF (a[8] >= 128) # (b[8] >= 128) THEN wrapping_neg(q) ELSE q

oflow_rem_signed(a, b) ==
  IF b = ZeroWord THEN a
  ELSE IF a = IntMin /\ b = AllOnes THEN ZeroWord
  ELSE LET r == URem(Magnitude(a), Magnitude(b)) IN
       IF a[8] >= 128 THEN wrapping_neg(r) ELSE r

\* Mul, Div, Divu, Rem, Remu: the helper's result is written to rd.
Mul(rd, rs1, rs2) == WriteRd(rd, oflow_mul(registers[rs1], registers[rs2]))

\* Div as it would be had the division by zero been left to `/`, which
\* panics on a zero divisor.
Div_PanicsOnZero(rd, rs1, rs2) ==
  IF registers[rs2] = ZeroWord THEN Panic
  ELSE WriteRd(rd, oflow_div_signed(registers[rs1], registers[rs2]))
Div(rd, rs1, rs2) ==
  WriteRd(rd, oflow_div_signed(registers[rs1], registers[rs2]))

Divu(rd, rs1, rs2) == WriteRd(rd, oflow_div(registers[rs1], registers[rs2]))

Rem(rd, rs1, rs2) ==
  WriteRd(rd, oflow_rem_signed(registers[rs1], registers[rs2]))

Remu(rd, rs1, rs2) == WriteRd(rd, oflow_rem(registers[rs1], registers[rs2]))

\* Mulw, Divw, Divuw, Remw, RemuW: the same calls on the same registers as
\* Mul, Div, Divu, Rem, Remu.
Mulw(rd, rs1, rs2) == WriteRd(rd, oflow_mul(registers[rs1], registers[rs2]))

Divw(rd, rs1, rs2) ==
  WriteRd(rd, oflow_div_signed(registers[rs1], registers[rs2]))

Divuw(rd, rs1, rs2) == WriteRd(rd, oflow_div(registers[rs1], registers[rs2]))

Remw(rd, rs1, rs2) ==
  WriteRd(rd, oflow_rem_signed(registers[rs1], registers[rs2]))

RemuW(rd, rs1, rs2) == WriteRd(rd, oflow_rem(registers[rs1], registers[rs2]))
\* `((registers[rs2] & 0x3f) as u64) as u32`
Shamt6(a) == a[1] % 64

\* Sllw, Srlw: u32::wrapping_shl and wrapping_shr take the shift amount
\* modulo 32; `as i32 as u64` sign-extends the 32-bit result.
Sllw(rd, rs1, rs2) ==
  LET shamt == Shamt6(registers[rs2]) IN
  WriteRd(rd, SextW(wrapping_shl(LowBits(registers[rs1], 32), shamt % 32)))

Srlw(rd, rs1, rs2) ==
  LET shamt == Shamt6(registers[rs2]) IN
  WriteRd(rd, SextW(wrapping_shr(LowBits(registers[rs1], 32), shamt % 32)))

\* Sraw: `(x as i32) >> (shamt as i32)`.  A shift amount of 32 or more
\* panics where overflow checks are compiled in, and is taken modulo 32
\* where they are not.
Sraw(rd, rs1, rs2) ==
  LET shamt == Shamt6(registers[rs2])
      done == WriteRd(rd, wrapping_shr_i64(SextW(registers[rs1]), shamt % 32))
  IN  IF shamt >= 32 THEN Panic \/ done ELSE done
\* f64::from_bits and f64::to_bits: a float register is held as the 64-bit
\* pattern of its f64, which both functions carry over bit for bit.
from_bits(a) == a
to_bits(f) == f

\* FmvXW: `(((to_bits() & 0xffffffff) as i32) as i64) as u64`
FmvXW(rd, rs1) ==
  /\ registers' = [registers EXCEPT ![rd] = SextW(to_bits(f_registers[rs1]))]
  /\ advance
  /\ outcome' = "ok"
  /\ UNCHANGED <<f_registers, bus, csr, res>>

\* FmvWX: `f64::from_bits(registers[rs1] & 0xffff_ffff)`
FmvWX(rd, rs1) ==
  /\ f_registers' = [f_registers EXCEPT ![rd] = from_bits(LowBits(registers[rs1], 32))]
  /\ advance
  /\ outcome' = "ok"
  /\ UNCHANGED <<registers, bus, csr, res>>

\* FmvXD and FmvDX: both arms write the integer register rd with the bits
\* of the float register rs1.
FmvXD(rd, rs1) ==
  /\ registers' = [registers EXCEPT ![rd] = to_bits(f_registers[rs1])]
  /\ advance
  /\ outcome' = "ok"
  /\ UNCHANGED <<f_registers, bus, csr, res>>

FmvDX(rd, rs1) ==
  /\ registers' = [registers EXCEPT ![rd] = to_bits(f_registers[rs1])]
  /\ advance
  /\ outcome' = "ok"
  /\ UNCHANGED <<f_registers, bus, csr, res>>

\* ------------------------------------------------ f32 <-> f64 conversion
\* The position of the highest set bit of n > 0.
RECURSIVE HighBit(_)
HighBit(n) == IF n <= 1 THEN 0 ELSE 1 + HighBit(n \div 2)

\* Bit k of the integer n, 0 <= n < 2^31; 0 for a k outside 0..30.
IntBit(n, k) == IF k < 0 \/ k > 30 THEN 0 ELSE (n \div (2 ^ k)) % 2

\* The f64 pattern with the given sign and exponent field, whose fraction
\* is the integer m (below 2^23) shifted left by `up` bits, with the quiet
\* bit 51 set when q = 1.
Pack64(sign, e, m, up, q) ==
  Bytes(FromBits([k \in 0..63 |->
     IF k = 63 THEN sign
     ELSE IF k >= 52 THEN IntBit(e, k - 52)
     ELSE IF k = 51 /\ q = 1 THEN 1
     ELSE IntBit(m, k - up)]))

\* `val as f64` for the f32 with the pattern a: the set of patterns the cast
\* may produce.  The cast is exact; only for a NaN does the language leave
\* the result open (either sign, and a payload that is empty or the
\* input's, always quiet).
f32_as_f64(a) ==
  LET s == a[4] \div 128
      e == 2 * (a[4] % 128) + (a[3] \div 128)
      m == 65536 * (a[3] % 128) + 256 * a[2] + a[1]
      h == HighBit(m)
  IN
  IF e = 255 /\ m # 0
  THEN {Pack64(sg, 2047, 0, 0, 1) : sg \in {0, 1}}
         \cup {Pack64(sg, 2047, m, 29, 1) : sg \in {0, 1}}
  ELSE IF e = 255 THEN {Pack64(s, 2047, 0, 0, 0)}
  ELSE IF e > 0 THEN {Pack64(s, e + 896, m, 29, 0)}
  ELSE IF m # 0 THEN {Pack64(s, h + 874, m - 2 ^ h, 52 - h, 0)}
  ELSE {Pack64(s, 0, 0, 0, 0)}

\* The f32 pattern, zero extended to a u64, with the given sign and the 31
\* bits c of exponent field and fraction.
Pack32(sign, c) ==
  << c % 256, (c \div 256) % 256, (c \div 65536) % 256,
     (c \div 16777216) + 128 * sign, 0, 0, 0, 0 >>

\* Bit k of the 53-bit significand of the normal f64 with the pattern f.
SigBit(f, k) == IF k < 52 THEN Bit(f, k) ELSE IF k = 52 THEN 1 ELSE 0

\* The 24 bits from position sh up of that significand, as an integer.
RECURSIVE Window(_, _, _)
Window(f, sh, j) ==
  IF j = 24 THEN 0 ELSE SigBit(f, sh + j) + 2 * Window(f, sh, j + 1)

\* `(val as f32).to_bits() as u64` for the f64 with the pattern f: the set
\* of patterns the cast may produce.  The cast rounds to nearest, ties to
\* even; a NaN is treated as in f32_as_f64.
f64_as_f32(f) ==
  LET s == Bit(f, 63)
      e == 16 * (f[8] % 128) + (f[7] \div 16)
      fraczero == \A k \in 0..51 : Bit(f, k) = 0
      E == e - 1023
      sh == IF E >= -126 THEN 29 ELSE 29 + (-126 - E)
      base == IF E >= -126 THEN (E + 126) * 8388608 ELSE 0
      q == Window(f, sh, 0)
      round == SigBit(f, sh - 1)
      sticky == \E k \in 0..52 : k < sh - 1 /\ SigBit(f, k) = 1
      inc == IF round = 1 /\ (sticky \/ q % 2 = 1) THEN 1 ELSE 0
      top == Window(f, 29, 0) % 4194304
  IN
  IF e = 2047 /\ ~fraczero
  THEN {Pack32(sg, 2143289344) : sg \in {0, 1}}
         \cup {Pack32(sg, 2143289344 + top) : sg \in {0, 1}}
  ELSE IF e = 2047 \/ E > 127 THEN {Pack32(s, 2139095040)}
  ELSE IF e = 0 \/ sh > 54 THEN {Pack32(s, 0)}
  ELSE {Pack32(s, base + q + inc)}

\* Flw and Fsw: the address is registers[rs1] plus `(imm as u32) as u64`,
\* the immediate zero extended from 32 bits.
Flw(rd, rs1, imm) ==
  LET addr == wrapping_add(registers[rs1], LowBits(SextImm(imm), 32)) IN
  /\ IF BusInRange(addr, 32)
     THEN \E val \in f32_as_f64(BusRead(bus, addr, 32)) :
            f_registers' = [f_registers EXCEPT ![rd] = val]
     ELSE f_registers' = f_registers
  /\ advance
  /\ outcome' = "ok"
  /\ UNCHANGED <<registers, bus, csr, res>>

Fsw(rs1, rs2, imm) ==
  LET addr == wrapping_add(registers[rs1], LowBits(SextImm(imm), 32)) IN
  /\ IF BusInRange(addr, 32)
     THEN \E val \in f64_as_f32(f_registers[rs2]) :
            bus' = BusWrite(bus, addr, val, 32)
     ELSE bus' = bus
  /\ advance
  /\ outcome' = "ok"
  /\ UNCHANGED <<registers, f_registers, csr, res>>
\* Fld and Fsd: the address is registers[rs1]; imm is not used.
Fld(rd, rs1, imm) ==
  LET addr == registers[rs1] IN
  /\ f_registers' = IF BusInRange(addr, 64)
                    THEN [f_registers EXCEPT ![rd] = from_bits(BusRead(bus, addr, 64))]
                    ELSE f_registers
  /\ advance
  /\ outcome' = "ok"
  /\ UNCHANGED <<registers, bus, csr, res>>

Fsd(rs1, rs2, imm) ==
  LET addr == registers[rs1]
      val == f_registers[rs2]
  IN
  /\ bus' = IF BusInRange(addr, 64)
            THEN BusWrite(bus, addr, to_bits(val), 64)
            ELSE bus
  /\ advance
  /\ outcome' = "ok"
  /\ UNCHANGED <<registers, f_registers, csr, res>>
\* The match of execute() on the decoded instruction.
Dispatch(i) ==
  CASE i.op = "Lui" -> Lui(i.rd, i.imm)
    [] i.op = "Auipc" -> Auipc(i.rd, i.imm)
    [] i.op = "Jal" -> Jal(i.rd, i.imm)
    [] i.op = "Jalr" -> Jalr(i.rd, i.rs1, i.imm)
    [] i.op \in {"Beq", "Bne", "Blt", "Bge", "Bltu", "Bgeu"} ->
         Branch(i.op, i.rs1, i.rs2, i.imm)
    [] i.op = "Lb" -> LoadZext(i.rd, i.rs1, i.imm, 8)
    [] i.op = "Lh" -> LoadZext(i.rd, i.rs1, i.imm, 16)
    [] i.op = "Lw" -> Lw(i.rd, i.rs1, i.imm)
    [] i.op = "Lbu" -> LoadZext(i.rd, i.rs1, i.imm, 8)
    [] i.op = "Lhu" -> LoadZext(i.rd, i.rs1, i.imm, 16)
    [] i.op = "Lwu" -> LoadZext(i.rd, i.rs1, i.imm, 32)
    [] i.op = "Ld" -> LoadZext(i.rd, i.rs1, i.imm, 64)
    [] i.op = "Sb" -> Store(i.rs1, i.rs2, i.imm, 8)
    [] i.op = "Sh" -> Store(i.rs1, i.rs2, i.imm, 16)
    [] i.op = "Sw" -> Store(i.rs1, i.rs2, i.imm, 32)
    [] i.op = "Sd" -> Store(i.rs1, i.rs2, i.imm, 64)
    [] i.op = "Addi" -> Addi(i.rd, i.rs1, i.imm)
    [] i.op = "Fence" -> Fence
    [] i.op = "FenceI" -> FenceI
    [] i.op = "ECall" -> ECall
    [] i.op = "EBreak" -> EBreak
    [] i.op = "LrW" -> Lr(i.rd, i.rs1, 32, 4)
    [] i.op = "LrD" -> Lr(i.rd, i.rs1, 64, 8)
    [] i.op = "ScW" -> Sc(i.rd, i.rs1, i.rs2, 32, 4)
    [] i.op = "ScD" -> Sc(i.rd, i.rs1, i.rs2, 64, 8)
    [] i.op = "AmoswapW" -> Amoswap(i.rd, i.rs1, i.rs2, 32, 4)
    [] i.op = "AmoswapD" -> Amoswap(i.rd, i.rs1, i.rs2, 64, 8)
    [] i.op = "AmoaddW" -> Amo("add", i.rd, i.rs1, i.rs2, 32, 4, TRUE)
    [] i.op = "AmoxorW" -> Amo("xor", i.rd, i.rs1, i.rs2, 32, 4, TRUE)
    [] i.op = "AmoandW" -> Amo("and", i.rd, i.rs1, i.rs2, 32, 4, TRUE)
    [] i.op = "AmoorW" -> Amo("or", i.rd, i.rs1, i.rs2, 32, 4, TRUE)
    [] i.op = "AmominW" -> Amo("min", i.rd, i.rs1, i.rs2, 32, 4, TRUE)
    [] i.op = "AmomaxW" -> Amo("max", i.rd, i.rs1, i.rs2, 32, 4, TRUE)
    [] i.op = "AmominuW" -> Amo("min", i.rd, i.rs1, i.rs2, 32, 4, FALSE)
    [] i.op = "AmomaxuW" -> Amo("max", i.rd, i.rs1, i.rs2, 32, 4, FALSE)
    [] i.op = "AmoaddD" -> Amo("add", i.rd, i.rs1, i.rs2, 64, 8, TRUE)
    [] i.op = "AmoxorD" -> Amo("xor", i.rd, i.rs1, i.rs2, 64, 8, TRUE)
    [] i.op = "AmoandD" -> Amo("and", i.rd, i.rs1, i.rs2, 64, 8, TRUE)
    [] i.op = "AmoorD" -> Amo("or", i.rd, i.rs1, i.rs2, 64, 8, TRUE)
    [] i.op = "AmominD" -> Amo("min", i.rd, i.rs1, i.rs2, 64, 8, TRUE)
    [] i.op = "AmomaxD" -> Amo("max", i.rd, i.rs1, i.rs2, 64, 4, TRUE)
    [] i.op = "AmominuD" -> Amo("min", i.rd, i.rs1, i.rs2, 64, 8, FALSE)
    [] i.op = "AmomaxuD" -> Amo("max", i.rd, i.rs1, i.rs2, 64, 4, FALSE)
    [] i.op = "Csrrw" -> Csrrw(i.rd, i.rs1, i.csr)
    [] i.op = "Csrrs" -> Csrrs(i.rd, i.rs1, i.csr)
    [] i.op = "Csrrc" -> Csrrc(i.rd, i.rs1, i.csr)
    [] i.op = "Csrrwi" -> Csrrwi(i.rd, i.csr, i.uimm)
    [] i.op = "Csrrsi" -> Csrrsi(i.rd, i.csr, i.uimm)
    [] i.op = "Csrrci" -> Csrrci(i.rd, i.csr, i.uimm)
    [] i.op = "Slli" -> Slli(i.rd, i.rs1, i.shamt)
    [] i.op = "Mul" -> Mul(i.rd, i.rs1, i.rs2)
    [] i.op = "Div" -> Div(i.rd, i.rs1, i.rs2)
    [] i.op = "Divu" -> Divu(i.rd, i.rs1, i.rs2)
    [] i.op = "Rem" -> Rem(i.rd, i.rs1, i.rs2)
    [] i.op = "Remu" -> Remu(i.rd, i.rs1, i.rs2)
    [] i.op = "Mulw" -> Mulw(i.rd, i.rs1, i.rs2)
    [] i.op = "Divw" -> Divw(i.rd, i.rs1, i.rs2)
    [] i.op = "Divuw" -> Divuw(i.rd, i.rs1, i.rs2)
    [] i.op = "Remw" -> Remw(i.rd, i.rs1, i.rs2)
    [] i.op = "RemuW" -> RemuW(i.rd, i.rs1, i.rs2)
    [] i.op = "Sllw" -> Sllw(i.rd, i.rs1, i.rs2)
    [] i.op = "Srlw" -> Srlw(i.rd, i.rs1, i.rs2)
    [] i.op = "Sraw" -> Sraw(i.rd, i.rs1, i.rs2)
    [] i.op = "FmvXW" -> FmvXW(i.rd, i.rs1)
    [] i.op = "FmvWX" -> FmvWX(i.rd, i.rs1)
    [] i.op = "FmvXD" -> FmvXD(i.rd, i.rs1)
    [] i.op = "FmvDX" -> FmvDX(i.rd, i.rs1)
    [] i.op = "Flw" -> Flw(i.rd, i.rs1, i.imm)
    [] i.op = "Fsw" -> Fsw(i.rs1, i.rs2, i.imm)
    [] i.op = "Fld" -> Fld(i.rd, i.rs1, i.imm)
    [] i.op = "Fsd" -> Fsd(i.rs1, i.rs2, i.imm)
    [] i.op = "FclassD" -> FclassD
    [] i.op \in {"Undefined", "Srliw"} -> DefaultArm

\* SoftThread::execute: fetch, decode, dispatch.  A panic ends the run.
execute ==
  /\ outcome # "panic"
  /\ old' = arch
  /\ inst2' = inst
  /\ old2' = old
  /\ UNCHANGED <<program, enc_table, loaded>>
  /\ IF ~FetchInBounds
     THEN /\ inst' = NoInst
          /\ Panic
     ELSE LET i == Decode(fetch, enc_table) IN
          /\ i.op \in {"LrW", "LrD"} => Len(res) < MaxRes
          /\ inst' = i
          /\ Dispatch(i)

\* SoftThread::load_program.  The harness calls it once, on the HART it has
\* just constructed, and then steps the HART.  A vector of more than 4096
\* bytes is refused with Err(Exception::StackSizeExceeded).
load_program(code) ==
  /\ outcome = "new"
  /\ loaded' = code
  /\ IF Len(code) > MaxProgramLen
     THEN /\ outcome' = "StackSizeExceeded"
          /\ program' = program
     ELSE /\ program' = code
          /\ outcome' = "ok"
  /\ UNCHANGED <<registers, f_registers, pc, enc_table, bus, csr, res,
                 inst, old, inst2, old2>>


\* ------------------------------------------------------------------ inputs
\* Program images are written as the bytes of the image, in image order;
\* the word named in the comment is the one fetch hands to the decoder.
ADDI_x0_x0_5      == <<0, 80, 0, 19>>       \* 0x00500013  addi x0, x0, 5
ADDI_x7_x0_m1     == <<255, 240, 3, 147>>   \* 0xfff00393  addi x7, x0, -1
JAL_x1_2          == <<0, 32, 0, 239>>      \* 0x002000ef  jal x1, 2
JAL_x1_8          == <<0, 128, 0, 239>>     \* 0x008000ef  jal x1, 8
JALR_x1_x0_6      == <<0, 96, 0, 231>>      \* 0x006000e7  jalr x1, 6(x0)
BEQ_x0_x0_8       == <<0, 0, 4, 99>>        \* 0x00000463  beq x0, x0, 8
LB_x5_x2_0        == <<0, 1, 2, 131>>       \* 0x00010283  lb x5, 0(x2)
LW_x5_x0_0        == <<0, 0, 34, 131>>      \* 0x00002283  lw x5, 0(x0)
SW_x7_x2_0        == <<0, 113, 32, 35>>     \* 0x00712023  sw x7, 0(x2)
SW_x2_x0_0        == <<0, 32, 32, 35>>      \* 0x00202023  sw x2, 0(x0)
SW_x7_x0_0        == <<0, 112, 32, 35>>     \* 0x00702023  sw x7, 0(x0)
LRW_x5_x0         == <<16, 0, 34, 175>>     \* 0x100022af  lr.w x5, (x0)
LRW_x5_x5         == <<16, 2, 162, 175>>    \* 0x1002a2af  lr.w x5, (x5)
LRW_x5_x2         == <<16, 1, 34, 175>>     \* 0x100122af  lr.w x5, (x2)
SCW_x6_x2_x0      == <<24, 32, 35, 47>>     \* 0x1820232f  sc.w x6, x2, (x0)
SCW_x6_x7_x0      == <<24, 112, 35, 47>>    \* 0x1870232f  sc.w x6, x7, (x0)
LRD_x5_x0         == <<16, 0, 50, 175>>     \* 0x100032af  lr.d x5, (x0)
SCW_x6_x7_x5      == <<24, 114, 163, 47>>   \* 0x1872a32f  sc.w x6, x7, (x5)
SCD_x6_x7_x0      == <<24, 112, 51, 47>>    \* 0x1870332f  sc.d x6, x7, (x0)
AMOSWAPW_x5_x7_x0 == <<8, 112, 34, 175>>    \* 0x087022af  amoswap.w x5, x7, (x0)
AMOSWAPW_x5_x7_x2 == <<8, 113, 34, 175>>    \* 0x087122af  amoswap.w x5, x7, (x2)
ECALL             == <<0, 0, 0, 115>>       \* 0x00000073  ecall
EBREAK            == <<0, 16, 0, 115>>      \* 0x00100073  ebreak
ZERO_WORD         == <<0, 0, 0, 0>>         \* 0x00000000  (no instruction)
SRLIW_x1_x1_1     == <<0, 16, 208, 155>>    \* 0x0010d09b  srliw x1, x1, 1
FCLASSD_x5_f1     == <<226, 0, 146, 211>>   \* 0xe20092d3  fclass.d x5, f1
FENCE             == <<15, 240, 0, 15>>     \* 0x0ff0000f  fence
FENCE_I           == <<0, 0, 16, 15>>       \* 0x0000100f  fence.i
ADDI_x5_x2_m4     == <<255, 193, 2, 147>>   \* 0xffc10293  addi x5, x2, -4
ADDI_x1_x0_4      == <<0, 64, 0, 147>>      \* 0x00400093  addi x1, x0, 4
AUIPC_x5_0        == <<0, 0, 2, 151>>       \* 0x00000297  auipc x5, 0
AUIPC_x5_m4096    == <<255, 255, 242, 151>> \* 0xfffff297  auipc x5, 0xfffff
AUIPC_x6_80000    == <<128, 0, 3, 23>>      \* 0x80000317  auipc x6, 0x80000
JAL_x1_0          == <<0, 0, 0, 239>>       \* 0x000000ef  jal x1, 0
JAL_x1_m4         == <<255, 223, 240, 239>> \* 0xffdff0ef  jal x1, -4
JALR_x1_x1_4      == <<0, 64, 128, 231>>    \* 0x004080e7  jalr x1, 4(x1)
JALR_x2_x2_m7     == <<255, 145, 1, 103>>   \* 0xff910167  jalr x2, -7(x2)
LRW_x5_x7         == <<16, 3, 162, 175>>    \* 0x1003a2af  lr.w x5, (x7)
AMOADDW_x5_x7_x0  == <<0, 112, 34, 175>>    \* 0x007022af  amoadd.w x5, x7, (x0)
AMOXORW_x5_x7_x0  == <<32, 112, 34, 175>>   \* 0x207022af  amoxor.w x5, x7, (x0)
AMOANDW_x5_x7_x0  == <<96, 112, 34, 175>>   \* 0x607022af  amoand.w x5, x7, (x0)
AMOORW_x5_x7_x0   == <<64, 112, 34, 175>>   \* 0x407022af  amoor.w x5, x7, (x0)
AMOMINW_x5_x7_x0  == <<128, 112, 34, 175>>  \* 0x807022af  amomin.w x5, x7, (x0)
AMOMAXW_x5_x7_x0  == <<160, 112, 34, 175>>  \* 0xa07022af  amomax.w x5, x7, (x0)
AMOMINUW_x5_x7_x0 == <<192, 112, 34, 175>>  \* 0xc07022af  amominu.w x5, x7, (x0)
AMOMAXUW_x5_x7_x0 == <<224, 112, 34, 175>>  \* 0xe07022af  amomaxu.w x5, x7, (x0)
AMOMIND_x5_x7_x0  == <<128, 112, 50, 175>>  \* 0x807032af  amomin.d x5, x7, (x0)
AMOMAXD_x5_x7_x1  == <<160, 112, 178, 175>> \* 0xa070b2af  amomax.d x5, x7, (x1)
AMOMAXUD_x5_x7_x1 == <<224, 112, 178, 175>> \* 0xe070b2af  amomaxu.d x5, x7, (x1)
AMOADDD_x5_x7_x1  == <<0, 112, 178, 175>>   \* 0x0070b2af  amoadd.d x5, x7, (x1)

BNE_x2_x0_8        == <<0, 1, 20, 99>>       \* 0x00011463  bne x2, x0, 8
BNE_x7_x0_m4       == <<254, 3, 158, 227>>   \* 0xfe039ee3  bne x7, x0, -4
BEQ_x2_x0_8        == <<0, 1, 4, 99>>        \* 0x00010463  beq x2, x0, 8
BLT_x7_x2_m4       == <<254, 35, 206, 227>>  \* 0xfe23cee3  blt x7, x2, -4
BGE_x7_x2_8        == <<0, 35, 212, 99>>     \* 0x0023d463  bge x7, x2, 8
BLTU_x7_x2_8       == <<0, 35, 228, 99>>     \* 0x0023e463  bltu x7, x2, 8
BGEU_x7_x2_m4      == <<254, 35, 254, 227>>  \* 0xfe23fee3  bgeu x7, x2, -4
BLT_x2_x7_8        == <<0, 113, 68, 99>>     \* 0x00714463  blt x2, x7, 8
ADDI_x6_x0_127     == <<7, 240, 3, 19>>      \* 0x07f00313  addi x6, x0, 127
SB_x7_x0_0         == <<0, 112, 0, 35>>      \* 0x00700023  sb x7, 0(x0)
SB_x6_x0_0         == <<0, 96, 0, 35>>       \* 0x00600023  sb x6, 0(x0)
SH_x7_x0_0         == <<0, 112, 16, 35>>     \* 0x00701023  sh x7, 0(x0)
LB_x5_x0_0         == <<0, 0, 2, 131>>       \* 0x00000283  lb x5, 0(x0)
LH_x5_x0_0         == <<0, 0, 18, 131>>      \* 0x00001283  lh x5, 0(x0)
LBU_x5_x0_0        == <<0, 0, 66, 131>>      \* 0x00004283  lbu x5, 0(x0)
LHU_x5_x0_0        == <<0, 0, 82, 131>>      \* 0x00005283  lhu x5, 0(x0)
CSRRW_x5_340_x2    == <<52, 1, 18, 243>>     \* 0x340112f3  csrrw x5, 0x340, x2
CSRRW_x0_340_x2    == <<52, 1, 16, 115>>     \* 0x34011073  csrrw x0, 0x340, x2
CSRRW_x5_C00_x2    == <<192, 1, 18, 243>>    \* 0xc00112f3  csrrw x5, 0xc00, x2
CSRRS_x6_340_x1    == <<52, 0, 163, 115>>    \* 0x3400a373  csrrs x6, 0x340, x1
CSRRS_x6_340_x0    == <<52, 0, 35, 115>>     \* 0x34002373  csrrs x6, 0x340, x0
CSRRC_x6_340_x2    == <<52, 1, 51, 115>>     \* 0x34013373  csrrc x6, 0x340, x2
CSRRC_x6_340_x0    == <<52, 0, 51, 115>>     \* 0x34003373  csrrc x6, 0x340, x0
CSRRWI_x0_340_5    == <<52, 2, 208, 115>>    \* 0x3402d073  csrrwi x0, 0x340, 5
CSRRWI_x6_340_5    == <<52, 2, 211, 115>>    \* 0x3402d373  csrrwi x6, 0x340, 5
CSRRSI_x6_340_3    == <<52, 1, 227, 115>>    \* 0x3401e373  csrrsi x6, 0x340, 3
CSRRSI_x6_340_0    == <<52, 0, 99, 115>>     \* 0x34006373  csrrsi x6, 0x340, 0
CSRRCI_x6_340_3    == <<52, 1, 243, 115>>    \* 0x3401f373  csrrci x6, 0x340, 3
CSRRCI_x6_340_0    == <<52, 0, 115, 115>>    \* 0x34007373  csrrci x6, 0x340, 0
ADDI_x6_x0_1       == <<0, 16, 3, 19>>       \* 0x00100313  addi x6, x0, 1
SLLI_x5_x6_63      == <<3, 243, 18, 147>>    \* 0x03f31293  slli x5, x6, 63
DIV_x8_x5_x7       == <<2, 114, 196, 51>>    \* 0x0272c433  div x8, x5, x7
DIV_x8_x7_x2       == <<2, 35, 196, 51>>     \* 0x0223c433  div x8, x7, x2
DIVU_x8_x2_x7      == <<2, 113, 84, 51>>     \* 0x02715433  divu x8, x2, x7
REM_x8_x5_x7       == <<2, 114, 228, 51>>    \* 0x0272e433  rem x8, x5, x7
REM_x8_x5_x0       == <<2, 2, 228, 51>>      \* 0x0202e433  rem x8, x5, x0
REM_x8_x7_x2       == <<2, 35, 228, 51>>     \* 0x0223e433  rem x8, x7, x2
REMU_x8_x2_x7      == <<2, 113, 116, 51>>    \* 0x02717433  remu x8, x2, x7
MUL_x8_x7_x2       == <<2, 35, 132, 51>>     \* 0x02238433  mul x8, x7, x2
MULW_x8_x5_x7      == <<2, 114, 132, 59>>    \* 0x0272843b  mulw x8, x5, x7
MULW_x8_x7_x2      == <<2, 35, 132, 59>>     \* 0x0223843b  mulw x8, x7, x2
DIVW_x8_x5_x7      == <<2, 114, 196, 59>>    \* 0x0272c43b  divw x8, x5, x7
DIVUW_x8_x7_x2     == <<2, 35, 212, 59>>     \* 0x0223d43b  divuw x8, x7, x2
REMW_x8_x7_x2      == <<2, 35, 228, 59>>     \* 0x0223e43b  remw x8, x7, x2
REMUW_x8_x7_x2     == <<2, 35, 244, 59>>     \* 0x0223f43b  remuw x8, x7, x2
ADDI_x6_x0_33      == <<2, 16, 3, 19>>       \* 0x02100313  addi x6, x0, 33
SLLW_x8_x7_x6      == <<0, 99, 148, 59>>     \* 0x0063943b  sllw x8, x7, x6
SLLW_x8_x2_x7      == <<0, 113, 20, 59>>     \* 0x0071143b  sllw x8, x2, x7
SLLW_x8_x6_x2      == <<0, 35, 20, 59>>      \* 0x0023143b  sllw x8, x6, x2
SRLW_x8_x7_x6      == <<0, 99, 212, 59>>     \* 0x0063d43b  srlw x8, x7, x6
SRLW_x8_x7_x2      == <<0, 35, 212, 59>>     \* 0x0023d43b  srlw x8, x7, x2
SRAW_x8_x7_x6      == <<64, 99, 212, 59>>    \* 0x4063d43b  sraw x8, x7, x6
SRAW_x8_x7_x2      == <<64, 35, 212, 59>>    \* 0x4023d43b  sraw x8, x7, x2
SRAW_x8_x2_x6      == <<64, 97, 84, 59>>     \* 0x4061543b  sraw x8, x2, x6
\* Control flow, plain loads and stores, and the instructions that stop.
FMV_D_X_f1_x7      == <<242, 3, 128, 211>>   \* 0xf20380d3  fmv.d.x f1, x7
FMV_D_X_f1_x2      == <<242, 1, 0, 211>>     \* 0xf20100d3  fmv.d.x f1, x2
FMV_X_D_x6_f1      == <<226, 0, 131, 83>>    \* 0xe2008353  fmv.x.d x6, f1
FMV_X_D_x6_f7      == <<226, 3, 131, 83>>    \* 0xe2038353  fmv.x.d x6, f7
FMV_W_X_f1_x7      == <<240, 3, 128, 211>>   \* 0xf00380d3  fmv.w.x f1, x7
FMV_W_X_f1_x2      == <<240, 1, 0, 211>>     \* 0xf00100d3  fmv.w.x f1, x2
FMV_X_W_x6_f1      == <<224, 0, 131, 83>>    \* 0xe0008353  fmv.x.w x6, f1
SD_x2_x0_0         == <<0, 32, 48, 35>>      \* 0x00203023  sd x2, 0(x0)
SW_x2_x2_m4        == <<254, 33, 46, 35>>    \* 0xfe212e23  sw x2, -4(x2)
FLD_f1_x0_0        == <<0, 0, 48, 135>>      \* 0x00003087  fld f1, 0(x0)
FLD_f1_x0_8        == <<0, 128, 48, 135>>    \* 0x00803087  fld f1, 8(x0)
FLD_f1_x2_m8       == <<255, 129, 48, 135>>  \* 0xff813087  fld f1, -8(x2)
FSD_f1_x0_0        == <<0, 16, 48, 39>>      \* 0x00103027  fsd f1, 0(x0)
FSD_f1_x0_8        == <<0, 16, 52, 39>>      \* 0x00103427  fsd f1, 8(x0)
FLW_f1_x0_0        == <<0, 0, 32, 135>>      \* 0x00002087  flw f1, 0(x0)
FLW_f1_x0_12       == <<0, 192, 32, 135>>    \* 0x00c02087  flw f1, 12(x0)
FLW_f1_x2_m4       == <<255, 193, 32, 135>>  \* 0xffc12087  flw f1, -4(x2)
FSW_f1_x0_4        == <<0, 16, 34, 39>>      \* 0x00102227  fsw f1, 4(x0)
FSW_f1_x2_m4       == <<254, 17, 46, 39>>    \* 0xfe112e27  fsw f1, -4(x2)
ADDI_x1_x0_8       == <<0, 128, 0, 147>>     \* 0x00800093  addi x1, x0, 8
LRW_x5_x1          == <<16, 0, 162, 175>>    \* 0x1000a2af  lr.w x5, (x1)
LRD_x5_x1          == <<16, 0, 178, 175>>    \* 0x1000b2af  lr.d x5, (x1)
SCW_x6_x7_x1       == <<24, 112, 163, 47>>   \* 0x1870a32f  sc.w x6, x7, (x1)
SCD_x6_x7_x1       == <<24, 112, 179, 47>>   \* 0x1870b32f  sc.d x6, x7, (x1)
SCW_x2_x7_x5       == <<24, 114, 161, 47>>   \* 0x1872a12f  sc.w x2, x7, (x5)
CSRRW_x2_340_x2    == <<52, 1, 17, 115>>     \* 0x34011173  csrrw x2, 0x340, x2
InstWords ==
  { ADDI_x0_x0_5, ADDI_x7_x0_m1, JAL_x1_2, JAL_x1_8, JALR_x1_x0_6,
    BEQ_x0_x0_8, LB_x5_x2_0, LW_x5_x0_0, SW_x7_x2_0, SW_x7_x0_0,
    AMOSWAPW_x5_x7_x2, ECALL, EBREAK, ZERO_WORD, SRLIW_x1_x1_1,
    FCLASSD_x5_f1, FENCE, FENCE_I }

\* Reservations: LR, SC, and the stores in between.
AtomicWords ==
  { ADDI_x7_x0_m1, SW_x2_x0_0, LRW_x5_x0, LRW_x5_x5, LRW_x5_x2,
    SCW_x6_x2_x0, SCW_x6_x7_x0, SCW_x6_x7_x5, LRD_x5_x0, SCD_x6_x7_x0,
    AMOSWAPW_x5_x7_x0 }

\* Atomic memory operations, at aligned and at misaligned addresses.
AmoWords ==
  { ADDI_x7_x0_m1, ADDI_x1_x0_4, SW_x7_x0_0, LRW_x5_x7,
    AMOADDW_x5_x7_x0, AMOXORW_x5_x7_x0, AMOANDW_x5_x7_x0, AMOORW_x5_x7_x0,
    AMOMINW_x5_x7_x0, AMOMAXW_x5_x7_x0, AMOMINUW_x5_x7_x0,
    AMOMAXUW_x5_x7_x0, AMOMIND_x5_x7_x0, AMOMAXD_x5_x7_x1,
    AMOMAXUD_x5_x7_x1, AMOADDD_x5_x7_x1 }

\* Integer additions and jumps.
AluWords ==
  { ADDI_x5_x2_m4, ADDI_x7_x0_m1, AUIPC_x5_0, AUIPC_x5_m4096, AUIPC_x6_80000,
    JAL_x1_0, JAL_x1_8, JAL_x1_m4, JALR_x1_x1_4, JALR_x2_x2_m7 }

\* What the HARTs of a Cpu run: LR and SC on one, stores on another.
CpuWords == { LRW_x5_x0, SCW_x6_x2_x0, SW_x2_x0_0 }

\* Conditional branches over x0 = 0, x2 = MEM_SIZE and x7 = 0 or -1.
BranchWords ==
  { ADDI_x7_x0_m1, BEQ_x0_x0_8, BEQ_x2_x0_8, BNE_x2_x0_8, BNE_x7_x0_m4,
    BLT_x7_x2_m4, BLT_x2_x7_8, BGE_x7_x2_8, BLTU_x7_x2_8, BGEU_x7_x2_m4 }
\* Byte and halfword stores and the loads that read them back.
MemWords ==
  { ADDI_x7_x0_m1, ADDI_x6_x0_127, SB_x7_x0_0, SB_x6_x0_0, SH_x7_x0_0,
    LB_x5_x0_0, LH_x5_x0_0, LBU_x5_x0_0, LHU_x5_x0_0, LB_x5_x2_0 }
\* CSR instructions on mscratch (0x340) and on the read-only cycle counter
\* (0xc00), with x1 = 0 or 4 and x2 = MEM_SIZE as operands.
CsrWords ==
  { ADDI_x1_x0_4, CSRRW_x5_340_x2, CSRRW_x0_340_x2, CSRRW_x5_C00_x2,
    CSRRS_x6_340_x1, CSRRS_x6_340_x0, CSRRC_x6_340_x2, CSRRC_x6_340_x0,
    CSRRWI_x0_340_5, CSRRWI_x6_340_5, CSRRSI_x6_340_3, CSRRSI_x6_340_0,
    CSRRCI_x6_340_3, CSRRCI_x6_340_0, CSRRW_x2_340_x2 }
\* Divisions and remainders over x2 = MEM_SIZE, x5 = 0 or INT64_MIN and
\* x7 = 0 or -1.
DivWords ==
  { ADDI_x7_x0_m1, DIV_x8_x5_x7, DIV_x8_x7_x2, DIVU_x8_x2_x7,
    REM_x8_x5_x7, REM_x8_x7_x2, REM_x8_x5_x0, REMU_x8_x2_x7 }

\* The 32-bit forms of the M extension over the same registers.
MulWWords ==
  { ADDI_x7_x0_m1, MUL_x8_x7_x2, MULW_x8_x5_x7, MULW_x8_x7_x2,
    DIVW_x8_x5_x7, DIVUW_x8_x7_x2, REMW_x8_x7_x2, REMUW_x8_x7_x2 }

\* What a program starts with: nothing, or the two instructions that put
\* INT64_MIN into x5.
Prologues == { <<>>, ADDI_x6_x0_1 \o SLLI_x5_x6_63 }
\* 32-bit register shifts by x2 = MEM_SIZE, x6 = 0 or 33 and x7 = 0 or -1.
ShiftWords ==
  { ADDI_x7_x0_m1, ADDI_x6_x0_33, SLLW_x8_x7_x6, SLLW_x8_x2_x7,
    SLLW_x8_x6_x2, SRLW_x8_x7_x6, SRLW_x8_x7_x2, SRAW_x8_x7_x6,
    SRAW_x8_x7_x2, SRAW_x8_x2_x6 }

\* The images of exactly n words of W, and of at most MaxInsts words.
RECURSIVE Images(_, _)
Images(W, n) ==
  IF n = 0 THEN {<<>>}
  ELSE {p \o w : p \in Images(W, n - 1), w \in W}

Programs(W) == UNION {Images(W, n) : n \in 0..MaxInsts}


\* Moves between the integer and the float register file.
FmvWords ==
  { ADDI_x7_x0_m1, FMV_D_X_f1_x7, FMV_D_X_f1_x2, FMV_X_D_x6_f1,
    FMV_X_D_x6_f7, FMV_W_X_f1_x7, FMV_W_X_f1_x2, FMV_X_W_x6_f1 }
\* Float loads and stores, with zero, positive and negative immediates.
FlsWords ==
  { SD_x2_x0_0, SW_x2_x2_m4, FLD_f1_x0_0, FLD_f1_x0_8, FLD_f1_x2_m8,
    FSD_f1_x0_0, FSD_f1_x0_8, FLW_f1_x0_0, FLW_f1_x0_12, FLW_f1_x2_m4,
    FSW_f1_x0_4, FSW_f1_x2_m4 }
\* Reservations at two addresses, 0 and 8, and a reservation made through
\* lr.w x5, (x5), which records the value loaded.
ResWords ==
  { LRW_x5_x0, LRW_x5_x1, LRD_x5_x0, LRD_x5_x1, SCW_x6_x7_x0, SCW_x6_x7_x1,
    SCD_x6_x7_x0, SCD_x6_x7_x1, SW_x2_x0_0, LRW_x5_x5, SCW_x2_x7_x5 }

\* x1 = 8, and a reservation at 8 already held.
ResPrologues == { <<>>, ADDI_x1_x0_8, ADDI_x1_x0_8 \o LRW_x5_x1 }
\* load_program's limit: images of a few instructions, as they are and
\* filled with zero bytes up to lengths around the 4096-byte limit.
LoadWords == { ADDI_x0_x0_5, ADDI_x7_x0_m1, JAL_x1_8, SW_x7_x0_0 }

PaddedLens ==
  { MaxProgramLen - 1, MaxProgramLen, MaxProgramLen + 1,
    MaxProgramLen + INST_LEN }

Pad(p, n) == p \o [i \in 1..(n - Len(p)) |-> 0]

LongPrograms ==
  {Pad(p, n) : p \in Programs(LoadWords), n \in PaddedLens}
    \cup Programs(LoadWords)
\* ---------------------------------------------------------- specifications
LoadProgram ==
  /\ outcome = "new"
  /\ \E code \in Programs(InstWords) : load_program(code)
  /\ UNCHANGED cpu

\* One call of execute() on the HART being stepped.
Execute ==
  /\ execute
  /\ trail' = <<hart, trail[1]>>
  /\ UNCHANGED <<cores, hart>>

Next == LoadProgram \/ Execute

Spec == Init /\ [][Next]_vars

LoadAtomicProgram ==
  /\ outcome = "new"
  /\ \E code \in Programs(AtomicWords) : load_program(code)
  /\ UNCHANGED cpu

NextAtomic == LoadAtomicProgram \/ Execute

SpecAtomic == Init /\ [][NextAtomic]_vars

LoadAmoProgram ==
  /\ outcome = "new"
  /\ \E code \in Programs(AmoWords) : load_program(code)
  /\ UNCHANGED cpu

NextAmo == LoadAmoProgram \/ Execute

SpecAmo == Init /\ [][NextAmo]_vars

LoadAluProgram ==
  /\ outcome = "new"
  /\ \E code \in Programs(AluWords) : load_program(code)
  /\ UNCHANGED cpu

NextAlu == LoadAluProgram \/ Execute

SpecAlu == Init /\ [][NextAlu]_vars

LoadBranchProgram ==
  /\ outcome = "new"
  /\ \E code \in Programs(BranchWords) : load_program(code)
  /\ UNCHANGED cpu

NextBranch == LoadBranchProgram \/ Execute

SpecBranch == Init /\ [][NextBranch]_vars
LoadMemProgram ==
  /\ outcome = "new"
  /\ \E code \in Programs(MemWords) : load_program(code)
  /\ UNCHANGED cpu

NextMem == LoadMemProgram \/ Execute

SpecMem == Init /\ [][NextMem]_vars
LoadCsrProgram ==
  /\ outcome = "new"
  /\ \E code \in Programs(CsrWords) : load_program(code)
  /\ UNCHANGED cpu

NextCsr == LoadCsrProgram \/ Execute

SpecCsr == Init /\ [][NextCsr]_vars
LoadDivProgram ==
  /\ outcome = "new"
  /\ \E p \in Prologues :
       \E code \in Programs(DivWords) : load_program(p \o code)
  /\ UNCHANGED cpu

NextDiv == LoadDivProgram \/ Execute

SpecDiv == Init /\ [][NextDiv]_vars

LoadMulWProgram ==
  /\ outcome = "new"
  /\ \E p \in Prologues :
       \E code \in Programs(MulWWords) : load_program(p \o code)
  /\ UNCHANGED cpu

NextMulW == LoadMulWProgram \/ Execute

SpecMulW == Init /\ [][NextMulW]_vars
LoadShiftProgram ==
  /\ outcome = "new"
  /\ \E code \in Programs(ShiftWords) : load_program(code)
  /\ UNCHANGED cpu

NextShift == LoadShiftProgram \/ Execute

SpecShift == Init /\ [][NextShift]_vars
LoadLongProgram ==
  /\ outcome = "new"
  /\ \E code \in LongPrograms : load_program(code)
  /\ UNCHANGED cpu

NextLoad == LoadLongProgram \/ Execute

SpecLoad == Init /\ [][NextLoad]_vars
LoadFmvProgram ==
  /\ outcome = "new"
  /\ \E code \in Programs(FmvWords) : load_program(code)
  /\ UNCHANGED cpu

NextFmv == LoadFmvProgram \/ Execute

SpecFmv == Init /\ [][NextFmv]_vars
LoadFlsProgram ==
  /\ outcome = "new"
  /\ \E code \in Programs(FlsWords) : load_program(code)
  /\ UNCHANGED cpu

NextFls == LoadFlsProgram \/ Execute

SpecFls == Init /\ [][NextFls]_vars
LoadResProgram ==
  /\ outcome = "new"
  /\ \E p \in ResPrologues :
       \E code \in Programs(ResWords) : load_program(p \o code)
  /\ UNCHANGED cpu

NextRes == LoadResProgram \/ Execute

SpecRes == Init /\ [][NextRes]_vars
\* A Cpu of two HARTs.  Cpu has no method of its own: its user steps
\* cores[k].execute() for whichever k it chooses.  The HART being stepped is
\* held in the variables of `soft`, the other one in `cores`.
NewCore(id) ==
  LET a == [registers |-> [i \in 0..(NumRegs - 1) |->
                             IF i = 2 THEN U64(MEM_SIZE) ELSE ZeroWord],
            f_registers |-> [i \in 0..(NumRegs - 1) |-> ZeroWord],
            pc |-> ZeroWord, bus |-> DramDefault, csr |-> <<>>, res |-> <<>>]
  IN  [id |-> id, registers |-> a.registers, f_registers |-> a.f_registers,
       pc |-> a.pc, program |-> <<>>, enc_table |-> EncodingTableDefault,
       bus |-> a.bus, csr |-> a.csr, res |-> a.res, outcome |-> "new",
       inst |-> NoInst, old |-> a, inst2 |-> NoInst, old2 |-> a,
       loaded |-> <<>>]

ThisCore ==
  [id |-> hart, registers |-> registers, f_registers |-> f_registers,
   pc |-> pc, program |-> program, enc_table |-> enc_table, bus |-> bus,
   csr |-> csr, res |-> res, outcome |-> outcome, inst |-> inst, old |-> old,
   inst2 |-> inst2, old2 |-> old2, loaded |-> loaded]

InitCpu ==
  /\ enc_table = EncodingTableDefault
  /\ registers = NewCore(0).registers
  /\ f_registers = NewCore(0).f_registers
  /\ pc = ZeroWord
  /\ program = <<>>
  /\ csr = <<>>
  /\ bus = DramDefault
  /\ res = <<>>
  /\ outcome = "new"
  /\ inst = NoInst
  /\ old = NewCore(0).old
  /\ inst2 = NoInst
  /\ old2 = old
  /\ loaded = <<>>
  /\ cores = <<NewCore(1)>>
  /\ hart = 0
  /\ trail = <<-1, -1>>

\* The user of the Cpu turns to cores[k].  A panic of any HART has ended
\* the run.
SelectCore(k) ==
  LET c == cores[k] IN
  /\ outcome # "panic"
  /\ registers' = c.registers
  /\ f_registers' = c.f_registers
  /\ pc' = c.pc
  /\ program' = c.program
  /\ enc_table' = c.enc_table
  /\ bus' = c.bus
  /\ csr' = c.csr
  /\ res' = c.res
  /\ outcome' = c.outcome
  /\ inst' = c.inst
  /\ old' = c.old
  /\ inst2' = c.inst2
  /\ old2' = c.old2
  /\ loaded' = c.loaded
  /\ cores' = [cores EXCEPT ![k] = ThisCore]
  /\ hart' = c.id
  /\ UNCHANGED trail

Select == \E k \in 1..Len(cores) : SelectCore(k)

LoadCpuProgram ==
  /\ outcome = "new"
  /\ \E code \in Programs(CpuWords) : load_program(code)
  /\ UNCHANGED cpu

NextCpu == LoadCpuProgram \/ Execute \/ Select

SpecCpu == InitCpu /\ [][NextCpu]_vars


\* ------------------------------------------------------------- observations
\* What the last step did, read off the history variables.
LoadOps == {"Lb", "Lh", "Lw", "Lbu", "Lhu", "Lwu", "Ld"}
StoreOps == {"Sb", "Sh", "Sw", "Sd"}
BranchOps == {"Beq", "Bne", "Blt", "Bge", "Bltu", "Bgeu"}
LrOps == {"LrW", "LrD"}
ScOps == {"ScW", "ScD"}
AmoWOps == {"AmoswapW", "AmoaddW", "AmoxorW", "AmoandW", "AmoorW",
            "AmominW", "AmomaxW", "AmominuW", "AmomaxuW"}
AmoDOps == {"AmoswapD", "AmoaddD", "AmoxorD", "AmoandD", "AmoorD",
            "AmominD", "AmomaxD", "AmominuD", "AmomaxuD"}
AmoOps == AmoWOps \cup AmoDOps

\* Width in bits of the memory access of an operation.
AccessBits(op) ==
  CASE op \in {"Lb", "Lbu", "Sb"} -> 8
    [] op \in {"Lh", "Lhu", "Sh"} -> 16
    [] op \in {"Lw", "Lwu", "Sw", "LrW", "ScW"} \cup AmoWOps -> 32
    [] OTHER -> 64

\* Address of the memory access of instruction i in architectural state o.
EffAddr(i, o) ==
  IF i.op \in LoadOps \cup StoreOps
  THEN wrapping_add(o.registers[i.rs1], SextImm(i.imm))
  ELSE o.registers[i.rs1]

\* Where a jump or branch i executed in state o is to go.
Target(i, o) ==
  CASE i.op = "Jal" -> wrapping_add(o.pc, SextImm(i.imm))
    [] i.op = "Jalr" ->
         ClearBit0(wrapping_add(o.registers[i.rs1], SextImm(i.imm)))
    [] i.op \in BranchOps ->
         IF BranchTaken(i.op, o.registers[i.rs1], o.registers[i.rs2])
         THEN wrapping_add(o.pc, SextImm(i.imm))
         ELSE wrapping_add(o.pc, U64(4))

\* The last step was a load, store or atomic whose bus access was rejected.
LastBusFault ==
  /\ outcome = "ok"
  /\ inst.op \in LoadOps \cup StoreOps \cup LrOps \cup AmoOps
  /\ ~BusInRange(EffAddr(inst, old), AccessBits(inst.op))

\* The last step was an SC that returned; its address and width.
LastSc == outcome = "ok" /\ inst.op \in ScOps
LastAddr == EffAddr(inst, old)
LastBits == AccessBits(inst.op)

\* Memory outside the `bits` bits at addr is as it was before the last step.
SameOutside(addr, bits) ==
  \A a \in DOMAIN bus :
    (a < AsIndex(addr) \/ a >= AsIndex(addr) + (bits \div 8)) => bus[a] = old.bus[a]

\* ------------------------------------------------------------------ claims

\* C1: in every reachable state integer register x0 holds 0, at the start
\* and at the end of each step, also when the instruction names x0 as rd.
C1_X0IsZero == registers[0] = ZeroWord /\ old.registers[0] = ZeroWord

\* C2: at every instruction boundary pc is a multiple of 4; a JAL, JALR or
\* taken branch whose target is not a multiple of 4 raises
\* InstructionAddressMisaligned and does not install the target.
C2_PcAligned ==
  /\ ModSmall(pc, 4) = 0
  /\ (inst.op \in {"Jal", "Jalr"} \cup BranchOps /\ ModSmall(Target(inst, old), 4) # 0)
       => (outcome = "InstructionAddressMisaligned" /\ pc = old.pc)

\* C3: when the bus rejects the read or write of a load, store or atomic,
\* the step leaves pc, the registers, memory, the CSRs and the reservation
\* list as they were; in particular pc is not advanced.
C3_BusFaultLeavesState == LastBusFault => arch = old

\* C4: every step that completes without a fault sets pc to its jump or
\* branch target or to the old pc + 4, whatever instruction other than
\* ECALL and EBREAK the decoder produced.
C4_CompletedStepMovesPc ==
  (outcome = "ok" /\ inst.op \notin {"None", "Undefined", "ECall", "EBreak"})
    => pc = IF inst.op \in {"Jal", "Jalr"} \cup BranchOps
            THEN Target(inst, old)
            ELSE wrapping_add(old.pc, U64(4))

\* C5: executing a word that decodes to Undefined reports IllegalInstruction
\* and leaves pc and all other architectural state unchanged.
C5_UndefinedIsIllegal ==
  inst.op = "Undefined" => (outcome = "IllegalInstruction" /\ arch = old)

\* C6: ECALL surfaces EnvironmentCall and EBREAK surfaces Breakpoint to the
\* caller; pc is not advanced and nothing else changes.
C6_EcallEbreakSurface ==
  /\ inst.op = "ECall" => (outcome = "EnvironmentCall" /\ arch = old)
  /\ inst.op = "EBreak" => (outcome = "Breakpoint" /\ arch = old)

\* C7: SC.W / SC.D at addr succeeds exactly when addr is in the reservation
\* list: then memory at addr holds X[rs2] truncated to the width and rd = 0;
\* otherwise rd = 1 and memory is unchanged.
C7_ScSucceedsIffReserved ==
  LastSc =>
    IF Contains(old.res, LastAddr)
    THEN /\ registers[inst.rd] = ZeroWord
         /\ BusInRange(LastAddr, LastBits)
         /\ BusRead(bus, LastAddr, LastBits)
              = LowBits(old.registers[inst.rs2], LastBits)
         /\ SameOutside(LastAddr, LastBits)
    ELSE /\ registers[inst.rd] = OneWord
         /\ bus = old.bus

\* C8: after any SC.W or SC.D at addr, successful or not and however many
\* LRs preceded it, the reservation list has no entry equal to addr.
C8_ScClearsAddr == LastSc => ~Contains(res, LastAddr)

\* C8 witness: an SC returned at an address that was reserved more than
\* once before it.
C8_Witness ==
  /\ LastSc
  /\ Cardinality({k \in 1..Len(old.res) : old.res[k] = LastAddr}) >= 2
  /\ ~Contains(res, LastAddr)

\* C9: a successful LR at an aligned addr writes the loaded value (sign
\* extended for W) to rd and records addr; an SC of the same width at addr
\* executed next succeeds (rd = 0, memory at addr = X[rs2] truncated), and
\* an SC at addr right after an SC at addr fails with rd = 1.
C9_LrThenSc ==
  /\ (outcome = "ok" /\ inst.op \in LrOps /\ BusInRange(LastAddr, LastBits))
       => /\ registers[inst.rd]
               = (IF inst.op = "LrW"
                  THEN SextW(BusRead(old.bus, LastAddr, 32))
                  ELSE BusRead(old.bus, LastAddr, 64))
          /\ Contains(res, LastAddr)
  /\ (/\ LastSc
      /\ inst2.op \in LrOps
      /\ AccessBits(inst2.op) = LastBits
      /\ EffAddr(inst2, old2) = LastAddr
      /\ BusInRange(LastAddr, LastBits))
       => /\ registers[inst.rd] = ZeroWord
          /\ BusRead(bus, LastAddr, LastBits)
               = LowBits(old.registers[inst.rs2], LastBits)
  /\ (/\ LastSc
      /\ inst2.op \in ScOps
      /\ EffAddr(inst2, old2) = LastAddr)
       => registers[inst.rd] = OneWord

\* C10: a successful write by this HART (SB/SH/SW/SD or an AMO) that
\* overlaps a reserved address removes that reservation, so that an SC at
\* that address right after the store fails with rd = 1 and writes nothing.
C10_StoreClearsReservation ==
  /\ (/\ outcome = "ok"
      /\ inst.op \in StoreOps \cup AmoOps
      /\ BusInRange(LastAddr, LastBits))
       => \A k \in 1..Len(res) :
            ~(/\ AsIndex(res[k]) >= AsIndex(LastAddr)
              /\ AsIndex(res[k]) < AsIndex(LastAddr) + (LastBits \div 8))
  /\ (/\ LastSc
      /\ inst2.op \in StoreOps \cup AmoOps
      /\ BusInRange(EffAddr(inst2, old2), AccessBits(inst2.op))
      /\ EffAddr(inst2, old2) = LastAddr)
       => (registers[inst.rd] = OneWord /\ bus = old.bus)

\* ------------------------------------------- observations on atomics
AOps == LrOps \cup ScOps \cup AmoOps
DwordAOps == {"LrD", "ScD"} \cup AmoDOps
MinMaxOps == {"AmominW", "AmomaxW", "AmominuW", "AmomaxuW",
              "AmominD", "AmomaxD", "AmominuD", "AmomaxuD"}

\* The alignment the manual requires of an A-extension access.
NaturalAlign(op) == AccessBits(op) \div 8

\* The last step was an AMO that returned after a bus access at a naturally
\* aligned address.
LastAmo(ops) ==
  /\ outcome = "ok"
  /\ inst.op \in ops
  /\ ModSmall(LastAddr, NaturalAlign(inst.op)) = 0
  /\ BusInRange(LastAddr, LastBits)

\* The manual's f(mem, X[rs2]) of an AMO on `bits` bits, truncated to the
\* width: m is the value in memory, v the value of X[rs2].
RefAmo(op, m, v, bits) ==
  LET a == IF bits = 32 THEN SextW(m) ELSE m
      b == IF bits = 32 THEN SextW(v) ELSE v
      ua == LowBits(m, bits)
      ub == LowBits(v, bits)
      r == CASE op \in {"AmoswapW", "AmoswapD"} -> b
             [] op \in {"AmoaddW", "AmoaddD"} -> wrapping_add(a, b)
             [] op \in {"AmoxorW", "AmoxorD"} -> Bitwise("xor", a, b)
             [] op \in {"AmoandW", "AmoandD"} -> Bitwise("and", a, b)
             [] op \in {"AmoorW", "AmoorD"} -> Bitwise("or", a, b)
             [] op \in {"AmominW", "AmominD"} -> IF LtS(b, a) THEN b ELSE a
             [] op \in {"AmomaxW", "AmomaxD"} -> IF LtS(a, b) THEN b ELSE a
             [] op \in {"AmominuW", "AmominuD"} -> IF LtU(ub, ua) THEN ub ELSE ua
             [] op \in {"AmomaxuW", "AmomaxuD"} -> IF LtU(ua, ub) THEN ub ELSE ua
  IN  LowBits(r, bits)

\* C11: the reservation list holds at most one reservation per address,
\* also after two or more LR.W / LR.D on one address with no SC in between.
C11_OneReservationPerAddress ==
  \A i, j \in 1..Len(res) : i # j => res[i] # res[j]

\* C12: when a HART executes LR at addr, then another HART of the Cpu
\* stores to a byte the reservation covers, then the first HART executes SC
\* at addr, that SC fails with rd = 1 and writes nothing.
C12_OtherHartStoreFailsSc ==
  (/\ LastSc
   /\ BusInRange(LastAddr, LastBits)
   /\ inst2.op \in LrOps
   /\ AccessBits(inst2.op) = LastBits
   /\ EffAddr(inst2, old2) = LastAddr
   /\ trail[1] = hart
   /\ trail[2] \notin {hart, -1}
   /\ \E k \in 1..Len(cores) :
        LET c == cores[k]
            sa == AsIndex(EffAddr(c.inst, c.old))
            sn == AccessBits(c.inst.op) \div 8
        IN  /\ c.id = trail[2]
            /\ c.outcome = "ok"
            /\ c.inst.op \in StoreOps
            /\ BusInRange(EffAddr(c.inst, c.old), AccessBits(c.inst.op))
            /\ sa < AsIndex(LastAddr) + (LastBits \div 8)
            /\ AsIndex(LastAddr) < sa + sn)
    => (registers[inst.rd] = OneWord /\ bus = old.bus)

\* C13: an A-extension instruction whose address is not naturally aligned
\* returns LoadAddressMisaligned / StoreAddressMisaligned and leaves rd,
\* memory, the reservation list and pc unchanged.
C13_MisalignedAtomicFaults ==
  (inst.op \in AOps /\ ModSmall(LastAddr, NaturalAlign(inst.op)) # 0)
    => /\ outcome \in {"LoadAddressMisaligned", "StoreAddressMisaligned"}
       /\ arch = old

\* C14: a doubleword A-op (LR.D, SC.D, AMO*.D) whose address is not a
\* multiple of 8 is rejected before any bus access: memory, the registers
\* and the reservation list are as before the step.
C14_DwordAccessAligned ==
  (inst.op \in DwordAOps /\ ModSmall(LastAddr, 8) # 0)
    => (bus = old.bus /\ registers = old.registers /\ res = old.res)

\* C15: AMOMIN / AMOMAX (W and D) store the minimum / maximum of the memory
\* value and X[rs2] under signed comparison, AMOMINU / AMOMAXU under
\* unsigned comparison.
C15_AmoMinMaxComparison ==
  LastAmo(MinMaxOps)
    => BusRead(bus, LastAddr, LastBits)
         = RefAmo(inst.op, BusRead(old.bus, LastAddr, LastBits),
                  old.registers[inst.rs2], LastBits)

\* C16: every word AMO writes to rd the original 32-bit memory value sign
\* extended to 64 bits, and to memory f(original, X[rs2]) truncated to 32
\* bits.
C16_WordAmoResult ==
  LastAmo(AmoWOps)
    => /\ registers[inst.rd] = SextW(BusRead(old.bus, LastAddr, 32))
       /\ BusRead(bus, LastAddr, 32)
            = RefAmo(inst.op, BusRead(old.bus, LastAddr, 32),
                     old.registers[inst.rs2], 32)

\* ------------------------------------- observations on additions and jumps
LastOp(op) == outcome = "ok" /\ inst.op = op

\* C17: ADDI writes (X[rs1] + sign_extend(imm)) mod 2^64 to rd and advances
\* pc by 4, for every X[rs1] and every immediate, negative immediates and
\* sums that carry out of 64 bits included.
C17_AddiWraps ==
  LastOp("Addi")
    => /\ registers[inst.rd]
            = wrapping_add(old.registers[inst.rs1], SextImm(inst.imm))
       /\ pc = wrapping_add(old.pc, U64(4))

\* C18: AUIPC writes (pc + sign_extend(upper immediate)) mod 2^64 to rd,
\* also for an immediate with bit 31 set; with imm = 0 it writes pc to rd.
C18_AuipcAddsPc ==
  LastOp("Auipc")
    => /\ registers[inst.rd] = wrapping_add(old.pc, SextImm(inst.imm))
       /\ inst.imm = 0 => registers[inst.rd] = old.pc

\* C18 witness: an AUIPC with bit 31 of the immediate set has executed at a
\* pc other than 0.
C18_Witness ==
  /\ LastOp("Auipc")
  /\ inst.imm < 0
  /\ old.pc # ZeroWord
  /\ registers[inst.rd] = wrapping_add(old.pc, SextImm(inst.imm))

\* C19: JAL writes the old pc + 4 to rd and sets pc to the old pc +
\* sign_extend(imm); once a JAL with imm = 0 has executed, every later step
\* leaves pc where it was before the step, and no step faults.
C19_JalLinksAndLoops ==
  /\ [](LastOp("Jal")
         => /\ registers[inst.rd] = wrapping_add(old.pc, U64(4))
            /\ pc = wrapping_add(old.pc, SextImm(inst.imm)))
  /\ []((LastOp("Jal") /\ inst.imm = 0)
         => [](pc = old.pc /\ outcome = "ok"))

\* C19 witness: a JAL with imm = 0 has executed twice in a row at an
\* address other than 0.
C19_Witness ==
  /\ LastOp("Jal")
  /\ inst.imm = 0
  /\ inst2.op = "Jal"
  /\ inst2.imm = 0
  /\ old.pc # ZeroWord
  /\ pc = old.pc
  /\ old.pc = old2.pc

\* C20: JALR sets pc to (X[rs1] + sign_extend(imm)) with bit 0 cleared,
\* X[rs1] being the value before the step, and writes the old pc + 4 to rd,
\* also when rd and rs1 are the same register.
C20_JalrReadsFirst ==
  LastOp("Jalr")
    => /\ pc = ClearBit0(wrapping_add(old.registers[inst.rs1],
                                      SextImm(inst.imm)))
       /\ registers[inst.rd] = wrapping_add(old.pc, U64(4))

\* C20 witness: a JALR with rd = rs1 has executed whose X[rs1] was not the
\* link value and whose sum had bit 0 set.
C20_Witness ==
  /\ LastOp("Jalr")
  /\ inst.rd = inst.rs1
  /\ old.registers[inst.rs1] # wrapping_add(old.pc, U64(4))
  /\ wrapping_add(old.registers[inst.rs1], SextImm(inst.imm))[1] % 2 = 1
  /\ registers[inst.rd] = wrapping_add(old.pc, U64(4))

\* ------------------------------------------------ observations on branches
\* The sign of a register read as two's complement, and whether the
\* comparison a branch names holds of two registers.
IsNegative(a) == a[8] >= 128

ComparisonHolds(op, a, b) ==
  LET less == IF op \in {"Blt", "Bge"} /\ IsNegative(a) # IsNegative(b)
              THEN IsNegative(a)
              ELSE LtU(a, b)
  IN  CASE op = "Beq" -> a = b
        [] op = "Bne" -> a # b
        [] op \in {"Blt", "Bltu"} -> less
        [] op \in {"Bge", "Bgeu"} -> ~less

LastBranch == outcome = "ok" /\ inst.op \in BranchOps

SignExtend(a, bits) ==
  LET n == bits \div 8 IN
  [i \in 1..8 |-> IF i <= n THEN a[i]
                  ELSE IF a[n] >= 128 THEN 255 ELSE 0]

\* The last step is a load of op that read back what the step before it
\* stored with st at the same address.
ReadsBack(op, st) ==
  /\ LastOp(op)
  /\ inst2.op = st
  /\ EffAddr(inst, old) = EffAddr(inst2, old2)
  /\ BusInRange(EffAddr(inst, old), AccessBits(op))
  /\ inst.rd # 0

Stored == old2.registers[inst2.rs2]

\* C22: LB after SB at the same address writes the stored byte to rd
\* sign-extended to 64 bits (a byte 0x80..0xFF reads back with bits 63:8
\* all ones), LH after SH likewise for the halfword; LBU and LHU read the
\* same values back zero-extended.
C22_NarrowLoadsExtend ==
  /\ ReadsBack("Lb", "Sb") => registers[inst.rd] = SignExtend(Stored, 8)
  /\ ReadsBack("Lh", "Sh") => registers[inst.rd] = SignExtend(Stored, 16)
  /\ ReadsBack("Lbu", "Sb") => registers[inst.rd] = LowBits(Stored, 8)
  /\ ReadsBack("Lhu", "Sh") => registers[inst.rd] = LowBits(Stored, 16)
\* ------------------------------------------ observations on CSR operations
CsrOps == {"Csrrw", "Csrrs", "Csrrc", "Csrrwi", "Csrrsi", "Csrrci"}

\* The CSR the last step names, before and after the step.
OldCsr == CsrRead(old.csr, inst.csr)
NewCsr == CsrRead(csr, inst.csr)

\* The operand of the last CSR step: X[rs1], or the 5-bit immediate.
CsrOperand ==
  IF inst.op \in {"Csrrw", "Csrrs", "Csrrc"} THEN old.registers[inst.rs1]
  ELSE U64(inst.uimm)

\* rd holds the value the CSR had before the step (x0 stays as it was).
RdHoldsOldCsr == inst.rd # 0 => registers[inst.rd] = OldCsr

\* C23: CSRRC writes the old CSR value AND NOT X[rs1] to the CSR, CSRRCI the
\* old value AND NOT the zero-extended immediate; rd receives the old CSR
\* value.
C23_CsrClearsBits ==
  (outcome = "ok" /\ inst.op \in {"Csrrc", "Csrrci"})
    => /\ NewCsr = Bitwise("and", OldCsr, Not(CsrOperand))
       /\ RdHoldsOldCsr

\* C24: CSRRW and CSRRWI always write the CSR, with X[rs1] or with the
\* immediate, whatever rd is; rd = x0 only omits the read.
C24_CsrWriteAlways ==
  (outcome = "ok" /\ inst.op \in {"Csrrw", "Csrrwi"})
    => /\ NewCsr = CsrOperand
       /\ RdHoldsOldCsr

\* C25: CSRRS and CSRRC with rs1 = x0, and CSRRSI and CSRRCI with a zero
\* immediate, leave the CSR unchanged, still write the old CSR value to rd
\* and advance pc by 4.
C25_CsrReadOnlyForms ==
  (/\ outcome = "ok"
   /\ \/ inst.op \in {"Csrrs", "Csrrc"} /\ inst.rs1 = 0
      \/ inst.op \in {"Csrrsi", "Csrrci"} /\ inst.uimm = 0)
    => /\ csr = old.csr
       /\ RdHoldsOldCsr
       /\ pc = wrapping_add(old.pc, U64(4))

\* The last step decoded a CSR instruction that writes a CSR whose index has
\* bits 11:10 set, the read-only CSRs of the privileged architecture.
WritesReadOnlyCsr ==
  /\ inst.op \in CsrOps
  /\ inst.csr \div 1024 = 3
  /\ \/ inst.op \in {"Csrrw", "Csrrwi"}
     \/ inst.op \in {"Csrrs", "Csrrc"} /\ inst.rs1 # 0
     \/ inst.op \in {"Csrrsi", "Csrrci"} /\ inst.uimm # 0

\* C26: a CSR instruction that writes a read-only CSR (or names a CSR index
\* outside the recognized range) raises IllegalInstruction and leaves the
\* CSR file, rd and pc unchanged.
C26_CsrIllegalAccess ==
  WritesReadOnlyCsr
    => /\ outcome = "IllegalInstruction"
       /\ csr = old.csr
       /\ registers = old.registers
       /\ pc = old.pc
\* ----------------------------------- observations on division, remainder
DivOps == {"Div", "Divu", "Rem", "Remu"}

Dividend == old.registers[inst.rs1]
Divisor == old.registers[inst.rs2]

MulWOps == {"Mulw", "Divw", "Divuw", "Remw", "RemuW"}

\* What a 32-bit M operation yields from the low 32 bits of a and b, before
\* the sign extension of its 32-bit result.
Result32(op, a, b) ==
  CASE op = "Mulw" -> oflow_mul(LowBits(a, 32), LowBits(b, 32))
    [] op = "Divw" -> oflow_div_signed(SextW(a), SextW(b))
    [] op = "Divuw" -> oflow_div(LowBits(a, 32), LowBits(b, 32))
    [] op = "Remw" -> oflow_rem_signed(SextW(a), SextW(b))
    [] op = "RemuW" -> oflow_rem(LowBits(a, 32), LowBits(b, 32))

\* C28: MULW, DIVW, DIVUW, REMW and REMUW compute on the low 32 bits of
\* their operands only and write the 32-bit result sign-extended: bits
\* 63:32 of rd all equal bit 31.
C28_WordFormsSignExtend ==
  (outcome = "ok" /\ inst.op \in MulWOps /\ inst.rd # 0)
    => /\ registers[inst.rd] = SextW(registers[inst.rd])
       /\ registers[inst.rd] = SextW(Result32(inst.op, Dividend, Divisor))
\* ------------------------------------------ observations on 32-bit shifts
ShiftWOps == {"Sllw", "Srlw", "Sraw"}

\* The low 32 bits of a shifted by n < 32, as a sign-extended 32-bit value.
Shift32(op, a, n) ==
  CASE op = "Sllw" -> SextW(wrapping_shl(LowBits(a, 32), n))
    [] op = "Srlw" -> SextW(wrapping_shr(LowBits(a, 32), n))
    [] op = "Sraw" -> wrapping_shr_i64(SextW(a), n)

\* C29: SLLW, SRLW and SRAW shift the low 32 bits of X[rs1] by X[rs2][4:0]
\* only and write the 32-bit result sign-extended to 64 bits, for every
\* X[rs2], bit 5 set or not; the step never aborts on the shift amount.
C29_WordShifts ==
  (inst.op \in ShiftWOps /\ inst.rd # 0)
    => /\ outcome = "ok"
       /\ registers[inst.rd]
            = Shift32(inst.op, old.registers[inst.rs1],
                      old.registers[inst.rs2][1] % 32)
       /\ pc = wrapping_add(old.pc, U64(4))
\* ----------------------------------------------- observations on the fetch
\* The four bytes of the program image at the pc of the last step, in image
\* order, and the word they spell when the first byte is the least
\* significant one.
ImageAt(p) ==
  << program[p + 1], program[p + 2], program[p + 3], program[p + 4] >>

LastFetched == inst # NoInst /\ outcome # "new"

\* C30: fetch assembles the instruction word little-endian: program[pc]
\* supplies bits 7:0 and program[pc + 3] bits 31:24 of the word handed to
\* the decoder, so the instruction executed is the decoding of that word.
C30_FetchLittleEndian ==
  LastFetched
    => inst = Decode(ImageAt(AsIndex(old.pc)), enc_table)


\* The last call of execute() found pc + 3 outside the program image.
LastFetchOutside ==
  /\ trail[1] # -1
  /\ ~(AsIndex(old.pc) # -1 /\ AsIndex(old.pc) + 3 < Len(program))

\* C31: a step whose four bytes at pc do not all lie inside the program
\* image (an empty image, or a pc past the last instruction) raises
\* LoadAccessFault and leaves all state unchanged; it does not abort.
C31_FetchOutsideFaults ==
  LastFetchOutside => (outcome = "LoadAccessFault" /\ arch = old)

\* C32: FENCE and FENCE.I execute as no-ops: the step completes normally,
\* no register, memory, CSR or reservation changes, and pc advances by 4.
C32_FenceIsNoOp ==
  inst.op \in {"Fence", "FenceI"}
    => /\ outcome = "ok"
       /\ registers = old.registers
       /\ f_registers = old.f_registers
       /\ bus = old.bus
       /\ csr = old.csr
       /\ res = old.res
       /\ pc = wrapping_add(old.pc, U64(4))

\* load_program has returned and the HART has not been stepped since.
JustLoaded == outcome # "new" /\ trail[1] = -1

\* C33: load_program fails with ProgramTooLarge exactly when the vector is
\* longer than 4096 bytes; a vector of 0 to 4096 bytes is accepted and
\* becomes the program image byte for byte.
C33_ProgramTooLarge ==
  JustLoaded
    => IF Len(loaded) > MaxProgramLen
       THEN outcome = "ProgramTooLarge"
       ELSE outcome = "ok" /\ program = loaded

\* ------------------------------------------ observations on the float moves
\* pc has moved to the next instruction and nothing but the register files
\* can have changed.
MovedOn ==
  /\ outcome = "ok"
  /\ pc = wrapping_add(old.pc, U64(4))
  /\ bus = old.bus /\ csr = old.csr /\ res = old.res

\* C34: FMV.D.X copies the 64-bit pattern of X[rs1] into F[rd] and leaves
\* the integer registers unchanged; FMV.X.D copies the pattern of F[rs1]
\* into X[rd]; FMV.X.D after FMV.D.X returns the original integer value.
C34_FmvDoubleRoundTrip ==
  /\ inst.op = "FmvDX"
       => /\ MovedOn
          /\ f_registers = [old.f_registers EXCEPT ![inst.rd] = old.registers[inst.rs1]]
          /\ registers = old.registers
  /\ (inst.op = "FmvXD" /\ inst.rd # 0)
       => /\ MovedOn
          /\ registers = [old.registers EXCEPT ![inst.rd] = old.f_registers[inst.rs1]]
          /\ f_registers = old.f_registers
  /\ (inst2.op = "FmvDX" /\ inst.op = "FmvXD" /\ inst.rs1 = inst2.rd /\ inst.rd # 0)
       => registers[inst.rd] = old2.registers[inst2.rs1]

\* C35: FMV.W.X followed by FMV.X.W is the identity on the low 32 bits of
\* the integer value (the result is those 32 bits sign-extended to 64), and
\* after FMV.W.X the upper 32 bits of the float register are all ones.
C35_FmvWordRoundTrip ==
  /\ inst.op = "FmvWX"
       => /\ MovedOn
          /\ \A k \in 1..4 : f_registers[inst.rd][k] = old.registers[inst.rs1][k]
          /\ \A k \in 5..8 : f_registers[inst.rd][k] = 255
  /\ (inst2.op = "FmvWX" /\ inst.op = "FmvXW" /\ inst.rs1 = inst2.rd /\ inst.rd # 0)
       => /\ MovedOn
          /\ registers[inst.rd] = SextW(old2.registers[inst2.rs1])

\* ------------------------------ observations on the float loads and stores
\* The address X[rs1] + sign_extend(imm) of the last step, and its width.
FAddr == wrapping_add(old.registers[inst.rs1], SextImm(inst.imm))
FBits == IF inst.op \in {"Flw", "Fsw"} THEN 32 ELSE 64

\* A 32-bit pattern NaN-boxed in a float register.
NanBoxed(a) == <<a[1], a[2], a[3], a[4], 255, 255, 255, 255>>

\* What a float register may hold after a load of the bytes m, and what the
\* memory may hold after a store of the register f: the transfer keeps the
\* bit pattern, or converts between single and double precision.
LoadedFrom(m, bits) ==
  IF bits = 64 THEN {Bytes(m)} ELSE f32_as_f64(m) \cup {NanBoxed(m)}

StoredFrom(f, bits) ==
  IF bits = 64 THEN {Bytes(f)} ELSE f64_as_f32(f) \cup {Bytes(LowBits(f, 32))}

\* C36: FLW, FSW, FLD and FSD access memory at X[rs1] + sign_extend(imm)
\* modulo 2^64, for every immediate: a load takes the register's new value
\* from that address, a store changes memory there and nowhere else.
C36_FloatAccessAddress ==
  /\ inst.op \in {"Flw", "Fld"}
       => /\ outcome = "ok"
          /\ bus = old.bus
          /\ IF BusInRange(FAddr, FBits)
             THEN Bytes(f_registers[inst.rd])
                    \in LoadedFrom(BusRead(old.bus, FAddr, FBits), FBits)
             ELSE f_registers = old.f_registers
  /\ inst.op \in {"Fsw", "Fsd"}
       => /\ outcome = "ok"
          /\ f_registers = old.f_registers
          /\ IF BusInRange(FAddr, FBits)
             THEN /\ SameOutside(FAddr, FBits)
                  /\ Bytes(BusRead(bus, FAddr, FBits))
                       \in StoredFrom(old.f_registers[inst.rs2], FBits)
             ELSE bus = old.bus

\* C37: every SC.W / SC.D, successful or not, invalidates every reservation
\* held by this HART: it leaves the reservation list empty, so that an SC
\* that follows an SC fails with rd = 1.
C37_ScInvalidatesAll ==
  /\ LastSc => res = <<>>
  /\ (LastSc /\ inst2.op \in ScOps /\ inst.rd # 0)
       => registers[inst.rd] = OneWord

\* C38: SC.W / SC.D sets rd = 0 only if the bus write of X[rs2] took place:
\* when the address is reserved but the bus rejects the write, rd is not
\* set to 0.
C38_ScSuccessNeedsWrite ==
  (LastSc /\ inst.rd # 0 /\ Contains(old.res, LastAddr)
     /\ ~BusInRange(LastAddr, LastBits))
    => (registers[inst.rd] # ZeroWord \/ registers = old.registers)

\* C39: CSRRW with rd and rs1 naming the same register (not x0) swaps the
\* two values: afterwards the CSR holds the value the register had before
\* the step and the register holds the CSR's old value.
C39_CsrrwSwaps ==
  (outcome = "ok" /\ inst.op = "Csrrw" /\ inst.rd = inst.rs1 /\ inst.rd # 0)
    => /\ NewCsr = old.registers[inst.rs1]
       /\ registers[inst.rd] = OldCsr

\* C40: AMOADD.W and AMOADD.D never abort on arithmetic overflow: for every
\* memory value and every X[rs2] the step completes and stores the sum of
\* the original value and X[rs2] reduced modulo 2^32, respectively 2^64.
C40_AmoaddWraps ==
  (/\ inst.op \in {"AmoaddW", "AmoaddD"}
   /\ ModSmall(LastAddr, NaturalAlign(inst.op)) = 0
   /\ BusInRange(LastAddr, LastBits))
    => /\ outcome = "ok"
       /\ BusRead(bus, LastAddr, LastBits)
            = RefAmo(inst.op, BusRead(old.bus, LastAddr, LastBits),
                     old.registers[inst.rs2], LastBits)
=============================================================================
